---- MODULE Spec2Model ----
(***************************************************************************)
(* HootCAD: the script execution pipeline of the extension host.           *)
(*                                                                         *)
(*   - parameter values and their coercion (ParameterCache, utilities.ts)  *)
(*   - script loading, introspection and execution (jscadEngine)           *)
(*   - the preview orchestration (WebviewManager, ExtensionLifecycle)      *)
(*                                                                         *)
(* JavaScript values are records [t, n, s, c]: t is the typeof-like tag,   *)
(* n the number in tenths (15 is 1.5; a boolean is 1 or 0), s the string    *)
(* as a sequence of one-character strings, c the channels of a colour      *)
(* array in 255ths.                                                        *)
(***************************************************************************)
EXTENDS Integers, Sequences, FiniteSets, TLC

VARIABLES
    cache,      \* ParameterCache.cache: path -> (name -> value), partial
    stored,     \* workspaceState 'hootcad.parameterCache' (saveToStorage)
    plast,      \* the last ParameterCache call: its arguments and its result
    files,      \* the script each path holds on disk
    requireCache, \* Node's module cache, as the scripts' require() reaches it
    runs,       \* the engine calls made so far, each with what it returned
    ws,         \* the workspace: its folder and its package.json
    editor,     \* vscode.window.activeTextEditor's file name, "" for none
    panel,      \* WebviewManager.currentPanel: "closed", "created" (webview
                \* still loading) or "ready" (its 'ready' message handled)
    currentEntrypoint, \* WebviewManager.currentEntrypoint, "" for undefined
    shown,      \* the parameter inputs the webview shows, and for which file
    pending,    \* executeAndRender calls suspended at `await
                \* getParameterDefinitions`, oldest first
    completed,  \* the executeAndRender call the last step finished, if any
    view,       \* the webview: what the last message it received made it show
    report,     \* ErrorReporter: the error handed to it and what it logged
    lookup,     \* the entrypoint resolver: the workspace it saw and its answer
    mcp,        \* McpManager, globalState's MCP flags and the spawned processes
    track,      \* for each suspended executeAndRender call, in the order of
                \* pending: what made it and whether a later call has posted
    handled     \* the event the last step handled, or whose call it resumed

paramVars == <<cache, stored, plast>>
engineVars == <<files, requireCache, runs>>
hostVars == <<ws, editor, panel, currentEntrypoint, shown, pending, completed>>
restVars == <<view, report, lookup, mcp, track, handled>>
vars == <<cache, stored, plast, files, requireCache, runs, ws, editor, panel,
          currentEntrypoint, shown, pending, completed, view, report, lookup,
          mcp, track, handled>>

----------------------------------------------------------------------------
(* JavaScript values *)

V(t, n, s, c) == [t |-> t, n |-> n, s |-> s, c |-> c]
Undefined == V("undefined", 0, <<>>, <<>>)
Null == V("null", 0, <<>>, <<>>)
NaN == V("nan", 0, <<>>, <<>>)
Num(n) == V("number", n, <<>>, <<>>)
Str(s) == V("string", 0, s, <<>>)
Bool(b) == V("boolean", IF b THEN 1 ELSE 0, <<>>, <<>>)
Arr(c) == V("array", 0, <<>>, c)

Digits == <<"0", "1", "2", "3", "4", "5", "6", "7", "8", "9">>
IsDigit(ch) == \E d \in 1..Len(Digits) : Digits[d] = ch
DigitVal(ch) == (CHOOSE d \in 1..Len(Digits) : Digits[d] = ch) - 1

HexDigits == Digits \o <<"a", "b", "c", "d", "e", "f">>
UpperHex == <<"A", "B", "C", "D", "E", "F">>
IsHex(ch) ==
    \/ \E d \in 1..Len(HexDigits) : HexDigits[d] = ch
    \/ \E d \in 1..Len(UpperHex) : UpperHex[d] = ch
HexVal(ch) ==
    IF \E d \in 1..Len(HexDigits) : HexDigits[d] = ch
    THEN (CHOOSE d \in 1..Len(HexDigits) : HexDigits[d] = ch) - 1
    ELSE (CHOOSE d \in 1..Len(UpperHex) : UpperHex[d] = ch) + 9

Abs(n) == IF n < 0 THEN -n ELSE n

\* String.prototype.toLowerCase, on the letters the model's strings use
LowerOf(ch) ==
    CASE ch = "T" -> "t" [] ch = "R" -> "r" [] ch = "U" -> "u" [] ch = "E" -> "e"
      [] ch = "A" -> "a" [] ch = "B" -> "b" [] ch = "C" -> "c" [] ch = "D" -> "d"
      [] ch = "F" -> "f" [] OTHER -> ch
toLowerCase(s) == [i \in 1..Len(s) |-> LowerOf(s[i])]

\* String.prototype.trim / the leading white space parseInt and parseFloat skip
RECURSIVE TrimLeft(_)
TrimLeft(s) == IF s # <<>> /\ Head(s) = " " THEN TrimLeft(Tail(s)) ELSE s
RECURSIVE TrimRight(_)
TrimRight(s) ==
    IF s # <<>> /\ s[Len(s)] = " " THEN TrimRight(SubSeq(s, 1, Len(s) - 1)) ELSE s
trim(s) == TrimRight(TrimLeft(s))

RECURSIVE LeadingDigits(_)
LeadingDigits(s) ==
    IF s = <<>> \/ ~IsDigit(Head(s)) THEN 0 ELSE 1 + LeadingDigits(Tail(s))
RECURSIVE DigitsToInt(_, _)
DigitsToInt(s, k) == IF k = 0 THEN 0 ELSE DigitsToInt(s, k - 1) * 10 + DigitVal(s[k])

HasSign(s) == s # <<>> /\ Head(s) \in {"-", "+"}
SignOf(s) == IF s # <<>> /\ Head(s) = "-" THEN -1 ELSE 1
Unsigned(s) == IF HasSign(s) THEN Tail(s) ELSE s

\* parseInt(value, 10): white space, a sign, the longest run of digits
parseInt(s) ==
    LET t == TrimLeft(s)
        body == Unsigned(t)
        k == LeadingDigits(body)
    IN  IF k = 0 THEN NaN ELSE Num(SignOf(t) * (DigitsToInt(body, k) * 10))

\* parseFloat(value): white space, a sign, digits, an optional fraction. The
\* number keeps one fractional digit (tenths).
parseFloat(s) ==
    LET t == TrimLeft(s)
        body == Unsigned(t)
        k == LeadingDigits(body)
        rest == SubSeq(body, k + 1, Len(body))
        frac == IF rest # <<>> /\ Head(rest) = "." THEN Tail(rest) ELSE <<>>
        f == LeadingDigits(frac)
    IN  IF k = 0 /\ f = 0 THEN NaN
        ELSE Num(SignOf(t) * (DigitsToInt(body, k) * 10
                              + (IF f = 0 THEN 0 ELSE DigitVal(frac[1]))))

\* Number(value) for a value that is not a string
ToNumber(v) ==
    CASE v.t = "number" -> v
      [] v.t = "boolean" -> Num(v.n * 10)
      [] v.t = "null" -> Num(0)
      [] OTHER -> NaN

isFinite(v) == v.t = "number"
typeofNumber(v) == v.t \in {"number", "nan"}

\* Math.trunc on tenths
trunc(n) == IF n >= 0 THEN (n \div 10) * 10 ELSE 0 - ((Abs(n) \div 10) * 10)

RECURSIVE NatToStr(_)
NatToStr(n) ==
    IF n < 10 THEN <<Digits[n + 1]>>
    ELSE NatToStr(n \div 10) \o <<Digits[(n % 10) + 1]>>

\* String(value); no array reaches String in this model
ToStr(v) ==
    CASE v.t = "string" -> v.s
      [] v.t = "number" ->
            (IF v.n < 0 THEN <<"-">> ELSE <<>>)
            \o NatToStr(Abs(v.n) \div 10)
            \o (IF Abs(v.n) % 10 = 0 THEN <<>> ELSE <<".", Digits[(Abs(v.n) % 10) + 1]>>)
      [] v.t = "boolean" -> IF v.n = 1 THEN <<"t", "r", "u", "e">>
                                      ELSE <<"f", "a", "l", "s", "e">>
      [] v.t = "null" -> <<"n", "u", "l", "l">>
      [] v.t = "nan" -> <<"N", "a", "N">>
      [] v.t = "undefined" -> <<"u", "n", "d", "e", "f", "i", "n", "e", "d">>

\* Boolean(value) for a value that is neither a boolean nor a string
Truthy(v) ==
    CASE v.t = "number" -> v.n # 0
      [] v.t = "array" -> TRUE
      [] OTHER -> FALSE

----------------------------------------------------------------------------
(* ParameterCache.getMergedParameters and its helpers *)

\* A ParameterDefinition. initial and checked are Undefined when the script
\* leaves them out; hasValues is Array.isArray(def.values).
Def(name, type, initial, checked, hasValues, values) ==
    [name |-> name, type |-> type, initial |-> initial, checked |-> checked,
     hasValues |-> hasValues, values |-> values]

EmptyMap == [k \in {} |-> Undefined]
Put(m, k, v) == [x \in DOMAIN m \cup {k} |-> IF x = k THEN v ELSE m[x]]

\* /^#([0-9a-fA-F]{3}|[0-9a-fA-F]{4}|[0-9a-fA-F]{6}|[0-9a-fA-F]{8})$/
HexMatch(hex) ==
    /\ Len(hex) \in {4, 5, 7, 9}
    /\ hex[1] = "#"
    /\ \A i \in 2..Len(hex) : IsHex(hex[i])

\* digits.split('').map(ch => ch + ch).join('')
Doubled(digits) == [i \in 1..(2 * Len(digits)) |-> digits[(i + 1) \div 2]]

\* parseInt(digits.slice(i, i + 2), 16)
HexByte(digits, i) == HexVal(digits[i]) * 16 + HexVal(digits[i + 1])

\* coerceColor on a value that is not an array (no array is among the initials
\* or the persisted values of the model); the result's channels are in 255ths
coerceColor(value) ==
    IF value.t # "string" THEN value
    ELSE LET hex == trim(value.s) IN
         IF ~HexMatch(hex) THEN value
         ELSE LET m == Tail(hex)
                  digits == IF Len(m) \in {3, 4} THEN Doubled(m) ELSE m
                  r == HexByte(digits, 1)
                  g == HexByte(digits, 3)
                  b == HexByte(digits, 5)
                  a == IF Len(digits) = 8 THEN HexByte(digits, 7) ELSE 255
              IN  Arr(<<r, g, b, a>>)

\* FindMatch comparing with === instead of by String()
FindMatch_Strict(values, value) ==
    LET hits == {i \in 1..Len(values) : values[i] = value}
    IN  IF hits = {} THEN Undefined
        ELSE values[CHOOSE i \in hits : \A j \in hits : i <= j]

\* def.values.find(v => String(v) === String(value))
FindMatch(values, value) ==
    LET hits == {i \in 1..Len(values) : ToStr(values[i]) = ToStr(value)}
    IN  IF hits = {} THEN Undefined
        ELSE values[CHOOSE i \in hits : \A j \in hits : i <= j]

\* the 'checkbox' branch of coerceValue
coerceCheckbox(value) ==
    IF value.t = "boolean" THEN value
    ELSE IF value.t = "string"
         THEN Bool(toLowerCase(value.s) = <<"t", "r", "u", "e">>)
    ELSE Bool(Truthy(value))

\* the 'int' branch of coerceValue
coerceInt(value) ==
    IF typeofNumber(value) /\ isFinite(value) THEN Num(trunc(value.n))
    ELSE LET parsed == IF value.t = "string" THEN parseInt(value.s)
                                            ELSE ToNumber(value)
         IN  IF isFinite(parsed) THEN Num(trunc(parsed.n)) ELSE Undefined

\* coerceNumber without the Number.isFinite test on the parsed value
coerceNumber_Unchecked(value) ==
    IF typeofNumber(value) /\ isFinite(value) THEN value
    ELSE IF value.t = "string" THEN parseFloat(value.s) ELSE ToNumber(value)

\* the 'number' / 'float' / 'slider' branch of coerceValue
coerceNumber(value) ==
    IF typeofNumber(value) /\ isFinite(value) THEN value
    ELSE LET parsed == IF value.t = "string" THEN parseFloat(value.s)
                                            ELSE ToNumber(value)
         IN  IF isFinite(parsed) THEN parsed ELSE Undefined

\* the 'choice' branch of coerceValue
coerceChoice(def, value) ==
    LET match == FindMatch(def.values, value)
    IN  IF match # Undefined THEN match ELSE value

coerceValue(def, value) ==
    IF value = Undefined THEN value
    ELSE IF def.type = "color" THEN coerceColor(value)
    ELSE IF def.type = "checkbox" THEN coerceCheckbox(value)
    ELSE IF def.type = "int" THEN coerceInt(value)
    ELSE IF def.type \in {"number", "float", "slider"} THEN coerceNumber(value)
    ELSE IF def.type = "choice" /\ def.hasValues THEN coerceChoice(def, value)
    ELSE value

\* CheckedOrFalse without the `?? false`
CheckedOrFalse_Raw(def) == def.checked

\* def.checked ?? false
CheckedOrFalse(def) ==
    IF def.checked \in {Undefined, Null} THEN Bool(FALSE) ELSE def.checked

\* SeedDefault without the first-allowed-value default of a choice
SeedDefault_NoFirstValue(merged, def) ==
    IF def.type = "checkbox" THEN Put(merged, def.name, CheckedOrFalse(def))
    ELSE IF def.initial # Undefined
        THEN Put(merged, def.name, coerceValue(def, def.initial))
    ELSE merged

\* one round of the first loop: the default of one definition
SeedDefault(merged, def) ==
    IF def.type = "checkbox" THEN Put(merged, def.name, CheckedOrFalse(def))
    ELSE IF def.type = "choice" /\ def.initial # Undefined
        THEN Put(merged, def.name, coerceValue(def, def.initial))
    ELSE IF def.type = "choice" /\ def.hasValues /\ Len(def.values) > 0
        THEN Put(merged, def.name, coerceValue(def, def.values[1]))
    ELSE IF def.initial # Undefined
        THEN Put(merged, def.name, coerceValue(def, def.initial))
    ELSE merged

\* OverrideCached without the test on the coerced value
OverrideCached_Always(merged, def, cached) ==
    IF def.name \in DOMAIN cached
    THEN Put(merged, def.name, coerceValue(def, cached[def.name]))
    ELSE merged

\* one round of the second loop: the cached value of one definition
OverrideCached(merged, def, cached) ==
    IF def.name \in DOMAIN cached
    THEN LET coerced == coerceValue(def, cached[def.name])
         IN  IF coerced # Undefined THEN Put(merged, def.name, coerced) ELSE merged
    ELSE merged

RECURSIVE SeedDefaults(_, _)
SeedDefaults(definitions, i) ==
    IF i = 0 THEN EmptyMap
    ELSE SeedDefault(SeedDefaults(definitions, i - 1), definitions[i])

RECURSIVE OverrideAll(_, _, _)
OverrideAll(definitions, i, cached) ==
    IF i = 0 THEN SeedDefaults(definitions, Len(definitions))
    ELSE OverrideCached(OverrideAll(definitions, i - 1, cached), definitions[i], cached)

\* CachedFor that hands out the entries of a file only to the first of two
\* consecutive resolutions
CachedFor_OnceOnly(c, filePath) ==
    IF filePath \in DOMAIN c /\ plast.op # "getMergedParameters" THEN c[filePath]
    ELSE EmptyMap

\* this.cache.get(filePath) || {}
CachedFor(c, filePath) == IF filePath \in DOMAIN c THEN c[filePath] ELSE EmptyMap

getMergedParameters(c, filePath, definitions) ==
    OverrideAll(definitions, Len(definitions), CachedFor(c, filePath))

\* updateParameter starting from an empty record instead of the cached one
updateParameter_Replace(c, filePath, paramName, value) ==
    Put(c, filePath, Put(EmptyMap, paramName, value))

\* ParameterCache.updateParameter: the value is stored as it was received
updateParameter(c, filePath, paramName, value) ==
    Put(c, filePath, Put(CachedFor(c, filePath), paramName, value))

\* ParameterCache.clear
clear(c, filePath) == [p \in DOMAIN c \ {filePath} |-> c[p]]

\* ParameterCache.clearAll
clearAll(c) == [p \in {} |-> EmptyMap]

\* ParameterCache.saveToStorage: Object.fromEntries(this.cache.entries())
saveToStorage(c) == c

----------------------------------------------------------------------------
(* jscadEngine: loading, introspecting and executing a script *)

\* A script file, by what evaluating it does: whether its top level parses
\* and runs, what it exports as getParameterDefinitions and as main.
\*   gpd:  "absent"  no such export          "list"    returns defs
\*         "throws"  throws                  "null"    returns null
\*         "object"  returns {}              "asyncList" / "asyncReject"
\*                                           an async function (a promise)
\*   main: "absent"  no such export          "throws"  throws new Error('boom')
\*         "number"  exported, but a number  "noExports"  module.exports = null
\*         "throwsString"  throws the string 'boom'
\*         "one"     one solid, sized by params.n
\*         "many"    an array: a solid and an outline
\*         "null"    returns null
\*         "modvar"  bumps a module-level counter, returns a solid of that size
\*         "shared"  bumps a counter kept on a module it require()s, returns
\*                   a solid of that size
Script(syntaxOk, gpd, defs, main) ==
    [syntaxOk |-> syntaxOk, gpd |-> gpd, defs |-> defs, main |-> main]

\* the values of main for which the script has no function named main
NoEntryFunction == {"absent", "number", "noExports"}

NoError == ""
SyntaxErrorMessage == "SyntaxError: Unexpected token"
NoMainMessage == "JSCAD file must export a main() function"
BoomMessage == "boom"
MetadataMessage == "metadata failed"
NullKeysMessage == "TypeError: Cannot convert undefined or null to object"
NullLengthMessage == "TypeError: Cannot read properties of null (reading 'length')"
NotIterableMessage == "TypeError: definitions is not iterable"
NullMainMessage == "Cannot read properties of null (reading 'main')"

\* A thrown value. t is "Error" (an object with a string message and a string
\* stack), "string" (a thrown string), "object" (an object without a message)
\* or "none" (nothing was thrown); text is the message, or the string itself;
\* stack is the lines of the trace, top first: the file, line
\* and column each names, column 0 for a line that names none.
Frame(file, line, column) == [file |-> file, line |-> line, column |-> column]
Thrown(t, text, stack) == [t |-> t, text |-> text, stack |-> stack]
Nothing == Thrown("none", NoError, <<>>)

\* the filename vm.Script is given: the path of the script being run
ScriptFile == <<"<script>">>
EngineFrame == Frame(<<"ext", "dist", "extension.js">>, 612, 36)
ErrorIn(message, line) == Thrown("Error", message, <<Frame(ScriptFile, line, 9), EngineFrame>>)
EngineError(message) == Thrown("Error", message, <<EngineFrame>>)

\* getErrorMessage: the message of an object that has a string one, else
\* String(error)
StringOf(error) ==
    CASE error.t = "string" -> error.text
      [] error.t = "object" -> "[object Object]"
      [] OTHER -> "Error: " \o error.text
getErrorMessage(error) == IF error.t = "Error" THEN error.text ELSE StringOf(error)

\* the require cache before any script ran: the shared module's counter at 0
PristineRequire == [lib |-> 0]

\* customRequire: the module instance comes from Node's cache, which no call
\* of loadJscadModuleFromFile clears
customRequire(rc) == rc.lib

\* loadJscadModuleFromFile: a new context and a new module object per call;
\* modVar is the script's module-level state as its top level leaves it
loadJscadModuleFromFile(script) ==
    IF ~script.syntaxOk
    THEN [threw |-> TRUE, error |-> EngineError(SyntaxErrorMessage), gpd |-> "absent",
          defs |-> <<>>, main |-> "absent", modVar |-> 0, exports |-> "object"]
    ELSE [threw |-> FALSE, error |-> Nothing, gpd |-> script.gpd,
          defs |-> script.defs, main |-> script.main, modVar |-> 0,
          exports |-> IF script.main = "noExports" THEN "null" ELSE "object"]

DefsArray(list) == [t |-> "array", list |-> list]
DefsObject == [t |-> "object", list |-> <<>>]

Introspection(rejected, error, value, caught, async) ==
    [rejected |-> rejected, error |-> error, value |-> value, caught |-> caught,
     async |-> async]

\* getParameterDefinitions: what awaiting the call gives. caught: the catch
\* block ran; async: the script's function returned a promise, so the await
\* ends only when that promise settles.
getParameterDefinitions(script) ==
    LET m == loadJscadModuleFromFile(script) IN
    IF m.threw \/ m.exports = "null"
    THEN Introspection(FALSE, Nothing, DefsArray(<<>>), TRUE, FALSE)
    ELSE CASE m.gpd = "absent" -> Introspection(FALSE, Nothing, DefsArray(<<>>), FALSE, FALSE)
           [] m.gpd = "throws" -> Introspection(FALSE, Nothing, DefsArray(<<>>), TRUE, FALSE)
           [] m.gpd = "null" -> Introspection(FALSE, Nothing, DefsArray(<<>>), TRUE, FALSE)
           [] m.gpd = "list" -> Introspection(FALSE, Nothing, DefsArray(m.defs), FALSE, FALSE)
           [] m.gpd = "object" -> Introspection(FALSE, Nothing, DefsObject, FALSE, FALSE)
           [] m.gpd = "asyncList" ->
                Introspection(FALSE, Nothing, DefsArray(m.defs), FALSE, TRUE)
           [] m.gpd = "asyncReject" ->
                Introspection(TRUE, ErrorIn(MetadataMessage, 2), DefsArray(<<>>), FALSE, TRUE)

\* the element of a one-element set: S == {f(x) : x \in {e}} computes e once
Only(S) == CHOOSE x \in S : TRUE

Geom(kind, size) == [kind |-> kind, size |-> size]
RawOne(g) == [t |-> "geometry", items |-> <<g>>]
RawArray(items) == [t |-> "array", items |-> items]
RawNull == [t |-> "null", items |-> <<>>]

\* params.n || 10, for the scripts whose solid is sized by a parameter
SizeParam(params) ==
    IF "n" \in DOMAIN params /\ params["n"].t = "number" /\ params["n"].n # 0
    THEN params["n"].n ELSE 100

MainResult(threw, error, raw, rc, sawLib, sawModVar) ==
    [threw |-> threw, error |-> error, raw |-> raw, rc |-> rc, sawLib |-> sawLib,
     sawModVar |-> sawModVar]

\* jscadModule.main(mainParams). sawLib and sawModVar are the values of the
\* shared module's counter and of the module-level counter the call found.
RunMain(m, params, rc) ==
    CASE m.main = "throws" -> MainResult(TRUE, ErrorIn(BoomMessage, 4), RawNull, rc, 0, m.modVar)
      [] m.main = "throwsString" ->
            MainResult(TRUE, Thrown("string", BoomMessage, <<>>), RawNull, rc, 0, m.modVar)
      [] m.main = "one" ->
            MainResult(FALSE, Nothing, RawOne(Geom("geom3", SizeParam(params))), rc, 0, m.modVar)
      [] m.main = "many" ->
            MainResult(FALSE, Nothing,
                       RawArray(<<Geom("geom3", SizeParam(params)), Geom("geom2", 50)>>),
                       rc, 0, m.modVar)
      [] m.main = "flat" ->
            MainResult(FALSE, Nothing, RawArray(<<Geom("geom2", 50), Geom("geom2", 100)>>),
                       rc, 0, m.modVar)
      [] m.main = "null" -> MainResult(FALSE, Nothing, RawNull, rc, 0, m.modVar)
      [] m.main = "modvar" ->
            MainResult(FALSE, Nothing, RawOne(Geom("geom3", m.modVar + 1)), rc, 0, m.modVar)
      [] m.main = "shared" ->
            MainResult(FALSE, Nothing, RawOne(Geom("geom3", customRequire(rc) + 1)),
                       [rc EXCEPT !.lib = customRequire(rc) + 1], customRequire(rc), m.modVar)

\* the result taken for a single geometry whatever it is
AsArray_First(raw) == <<raw.items[1]>>

\* Array.isArray(result) ? result : [result]
AsArray(raw) == IF raw.t = "array" THEN raw.items ELSE <<raw.items[1]>>

\* entitiesFromSolids and the serialisation of its entities: one entity per
\* geometry, its type read from the geometry
Entity(g) == [type |-> IF g.kind = "geom3" THEN "3d" ELSE "2d", size |-> g.size]
Serialized(items) == [i \in 1..Len(items) |-> Entity(items[i])]

Execution(threw, error, entities, rc, stages, sawLib, sawModVar) ==
    [threw |-> threw, error |-> error, entities |-> entities, rc |-> rc,
     stages |-> stages, sawLib |-> sawLib, sawModVar |-> sawModVar]

Stage(name, ok) == [name |-> name, ok |-> ok]

\* executeJscadFile without the rethrow of its catch block
executeJscadFile_Swallow(script, params, rc) ==
    LET m == loadJscadModuleFromFile(script) IN
    IF m.threw \/ m.main \in NoEntryFunction
    THEN Execution(FALSE, Nothing, <<>>, rc, <<Stage("execute", FALSE)>>, 0, 0)
    ELSE LET r == RunMain(m, params, rc) IN
         IF r.threw
         THEN Execution(FALSE, Nothing, <<>>, r.rc, <<Stage("execute", FALSE)>>,
                        r.sawLib, r.sawModVar)
         ELSE Execution(FALSE, Nothing,
                        IF r.raw.t = "null" THEN <<>> ELSE Serialized(AsArray(r.raw)), r.rc,
                        <<Stage("execute", TRUE), Stage("normalize", r.raw.t # "null")>>,
                        r.sawLib, r.sawModVar)

\* the try block of executeJscadFile: load, check main, call it, convert
\* and serialise
TryExecute(script, params, rc) ==
    Only({
        IF m.threw
        THEN Execution(TRUE, m.error, <<>>, rc, <<Stage("execute", FALSE)>>, 0, 0)
        ELSE IF m.exports = "null"
        THEN Execution(TRUE, EngineError(NullMainMessage), <<>>, rc, <<Stage("execute", FALSE)>>, 0, 0)
        ELSE IF m.main \in NoEntryFunction
        THEN Execution(TRUE, EngineError(NoMainMessage), <<>>, rc, <<Stage("execute", FALSE)>>, 0, 0)
        ELSE Only({
             IF r.threw
             THEN Execution(TRUE, r.error, <<>>, r.rc, <<Stage("execute", FALSE)>>,
                            r.sawLib, r.sawModVar)
             ELSE IF r.raw.t = "null"
             THEN Execution(TRUE, EngineError(NullKeysMessage), <<>>, r.rc,
                            <<Stage("execute", TRUE), Stage("normalize", FALSE)>>,
                            r.sawLib, r.sawModVar)
             ELSE Execution(FALSE, Nothing, Serialized(AsArray(r.raw)), r.rc,
                            <<Stage("execute", TRUE), Stage("normalize", TRUE)>>,
                            r.sawLib, r.sawModVar)
             : r \in {RunMain(m, params, rc)}})
        : m \in {loadJscadModuleFromFile(script)}})

\* the catch block throwing a new Error made of the message it logged
Rewrapped(x) == IF x.threw THEN [x EXCEPT !.error = EngineError(getErrorMessage(x.error))] ELSE x
executeJscadFile_Rewrapped(script, params, rc) == Rewrapped(TryExecute(script, params, rc))

\* executeJscadFile: the catch block logs the error's message and stack and
\* rethrows the error it caught
executeJscadFile(script, params, rc) == TryExecute(script, params, rc)

----------------------------------------------------------------------------
(* The preview orchestration: entrypoint resolution and executeAndRender *)

Entrypoint(filePath, source) == [filePath |-> filePath, source |-> source]
NoEntrypoint == Entrypoint("", "none")

\* manifest: "absent" (no package.json), "invalid" (JSON.parse throws) or
\* "valid"; main is its "main" field, "" when it has none
Workspace(folder, manifest, main) == [folder |-> folder, manifest |-> manifest, main |-> main]

\* String.endsWith('.jscad'), over the file names the model uses
endsWithJscad(p) == p \in {"index.jscad", "part.jscad", "gone.jscad", "other.jscad"}

resolveFromActiveEditor(activeEditorFilePath) ==
    IF activeEditorFilePath # "" /\ endsWithJscad(activeEditorFilePath)
    THEN Entrypoint(activeEditorFilePath, "active-editor")
    ELSE NoEntrypoint

\* the resolver looking for index.jscad before it reads package.json
resolveJscadEntrypointWithOptions_DefaultFirst(w, existing, activeEditorFilePath) ==
    IF ~w.folder THEN resolveFromActiveEditor(activeEditorFilePath)
    ELSE IF "index.jscad" \in existing THEN Entrypoint("index.jscad", "index.jscad")
    ELSE IF /\ w.manifest = "valid"
            /\ w.main # ""
            /\ endsWithJscad(w.main)
            /\ w.main \in existing
    THEN Entrypoint(w.main, "package.json")
    ELSE resolveFromActiveEditor(activeEditorFilePath)

\* the resolver giving up on a package.json whose "main" it cannot use
resolveJscadEntrypointWithOptions_NoFallThrough(w, existing, activeEditorFilePath) ==
    IF ~w.folder THEN resolveFromActiveEditor(activeEditorFilePath)
    ELSE IF w.manifest = "valid" /\ w.main # ""
    THEN (IF endsWithJscad(w.main) /\ w.main \in existing
          THEN Entrypoint(w.main, "package.json") ELSE NoEntrypoint)
    ELSE IF "index.jscad" \in existing THEN Entrypoint("index.jscad", "index.jscad")
    ELSE resolveFromActiveEditor(activeEditorFilePath)

\* existing: the files fs.existsSync finds in the workspace folder
resolveJscadEntrypointWithOptions(w, existing, activeEditorFilePath) ==
    IF ~w.folder THEN resolveFromActiveEditor(activeEditorFilePath)
    ELSE IF /\ w.manifest = "valid"
            /\ w.main # ""
            /\ endsWithJscad(w.main)
            /\ w.main \in existing
    THEN Entrypoint(w.main, "package.json")
    ELSE IF "index.jscad" \in existing THEN Entrypoint("index.jscad", "index.jscad")
    ELSE resolveFromActiveEditor(activeEditorFilePath)

\* the entrypoint the preview already stores, in place of a fresh resolution
resolveJscadEntrypoint_Stored(w, fs, e) ==
    IF currentEntrypoint # "" THEN Entrypoint(currentEntrypoint, "stored")
    ELSE resolveJscadEntrypointWithOptions(w, fs, e)

\* resolveJscadEntrypoint(): the resolution against the real workspace folder,
\* the real files and the active editor
resolveJscadEntrypoint(w, fs, e) == resolveJscadEntrypointWithOptions(w, fs, e)

\* a call of the resolver: what it was asked and what it answered
Lookup(op, w, existing, activeEditorFilePath, found) ==
    [op |-> op, w |-> w, existing |-> existing,
     activeEditorFilePath |-> activeEditorFilePath, found |-> found]
NoLookup == Lookup("none", Workspace(FALSE, "absent", ""), {}, "", NoEntrypoint)

\* one executeAndRender call between its first and its second await
\*   overlapped: another call for the same path was suspended when it began
Invocation(path, isFileChange, intro, overlapped) ==
    [path |-> path, isFileChange |-> isFileChange, intro |-> intro,
     overlapped |-> overlapped]

\* a finished executeAndRender call: the stages it ran, its outcome and the
\* messages it posted to the webview
Completed(path, script, isFileChange, overlapped, intro, resolved, params, stages, outcome, caught, message, entities, posted) ==
    [path |-> path, script |-> script, isFileChange |-> isFileChange,
     overlapped |-> overlapped, intro |-> intro, resolved |-> resolved,
     params |-> params, stages |-> stages, outcome |-> outcome, caught |-> caught,
     message |-> message,
     entities |-> entities, posted |-> posted]

NoInv ==
    Completed("", Script(TRUE, "absent", <<>>, "absent"), FALSE, FALSE,
              Introspection(FALSE, Nothing, DefsArray(<<>>), FALSE, FALSE), FALSE,
              EmptyMap, <<>>, "none", Nothing, NoError, <<>>, <<>>)

Shown(path, defs) == [path |-> path, defs |-> defs]
NoShown == Shown("", <<>>)

HostStep(cur, pend, done, rc, shw) ==
    [cur |-> cur, pending |-> pend, completed |-> done, rc |-> rc, shown |-> shw]

\* the catch block posting 'error' without looking at the panel
Failed_Unguarded(inv, fs, pnl, shw, stages, error, resolved, params, rc) ==
    HostStep("", <<>>,
             Completed(inv.path, fs[inv.path], inv.isFileChange, inv.overlapped,
                       inv.intro, resolved, params, stages, "Failure", error,
                       getErrorMessage(error), <<>>, <<"error">>),
             rc, shw)

\* executeAndRender's catch block: reportExecutionError, and the 'error'
\* message if the panel is open
Failed(inv, fs, pnl, shw, stages, error, resolved, params, rc) ==
    HostStep("", <<>>,
             Completed(inv.path, fs[inv.path], inv.isFileChange, inv.overlapped,
                       inv.intro, resolved, params, stages, "Failure", error,
                       getErrorMessage(error), <<>>,
                       IF pnl # "closed" THEN <<"error">> ELSE <<>>),
             rc, shw)

\* executeAndRender after executeJscadFile returned or threw x: 'resetView'
\* and 'renderEntities' if the panel is open, or the catch block
Render(inv, fs, params, x, pnl, shw) ==
    IF x.threw
    THEN Failed(inv, fs, pnl, shw,
                <<Stage("introspect", ~inv.intro.caught), Stage("resolve", TRUE)>>
                    \o x.stages,
                x.error, TRUE, params, x.rc)
    ELSE HostStep("", <<>>,
             Completed(inv.path, fs[inv.path], inv.isFileChange, inv.overlapped,
                       inv.intro, TRUE, params,
                       <<Stage("introspect", ~inv.intro.caught), Stage("resolve", TRUE)>>
                           \o x.stages,
                       "Success", Nothing, NoError, x.entities,
                       IF pnl # "closed"
                       THEN (IF inv.isFileChange THEN <<"resetView">> ELSE <<>>)
                                \o <<"renderEntities">>
                       ELSE <<>>),
             x.rc,
             IF pnl = "ready"
             THEN (IF Len(inv.intro.value.list) > 0
                   THEN Shown(inv.path, inv.intro.value.list) ELSE NoShown)
             ELSE shw)

\* executeAndRender with the parameters resolved: executeJscadFile reads the
\* script from disk again
Execute(inv, fs, params, rc, pnl, shw) ==
    Only({Render(inv, fs, params, x, pnl, shw) :
             x \in {executeJscadFile(fs[inv.path], params, rc)}})

\* executeAndRender from the value of `definitions` on: getMergedParameters,
\* executeJscadFile, then the messages of the try or of the catch block
Finish(inv, fs, c, rc, pnl, shw) ==
    IF inv.intro.rejected
    THEN Failed(inv, fs, pnl, shw, <<Stage("introspect", FALSE)>>, inv.intro.error,
                FALSE, EmptyMap, rc)
    ELSE IF inv.intro.value.t # "array"
    THEN Failed(inv, fs, pnl, shw, <<Stage("introspect", TRUE), Stage("resolve", FALSE)>>,
                EngineError(NotIterableMessage), FALSE, EmptyMap, rc)
    ELSE Only({Execute(inv, fs, params, rc, pnl, shw) :
                  params \in {getMergedParameters(c, inv.path, inv.intro.value.list)}})

\* the call ran to its end within the handler that made it
Started(filePath, pend, f) == HostStep(filePath, pend, f.completed, f.rc, f.shown)

\* executeAndRender once getParameterDefinitions has returned its promise:
\* the call stays suspended while the promise of the script's metadata
\* function is pending, and runs to its end otherwise
Begin(inv, fs, c, pend, rc, pnl, shw) ==
    IF inv.intro.async
    THEN HostStep(inv.path, Append(pend, inv), NoInv, rc, shw)
    ELSE Only({Started(inv.path, pend, f) : f \in {Finish(inv, fs, c, rc, pnl, shw)}})

\* executeAndRender(filePath) up to where it next yields to the event loop
executeAndRender(filePath, fs, c, cur, pend, rc, pnl, shw) ==
    Only({Begin(inv, fs, c, pend, rc, pnl, shw) :
             inv \in {Invocation(filePath, cur # filePath,
                                 getParameterDefinitions(fs[filePath]),
                                 \E i \in 1..Len(pend) : pend[i].path = filePath)}})

HostIdle ==
    /\ ws = Workspace(FALSE, "absent", "")
    /\ editor = ""
    /\ panel = "closed"
    /\ currentEntrypoint = ""
    /\ shown = NoShown
    /\ pending = <<>>
    /\ completed = NoInv

----------------------------------------------------------------------------
(* The ErrorReporter: what reportExecutionError logs for an error *)

\* getErrorStack: the stack of an object that has a string one, else undefined
Stack(defined, frames) == [defined |-> defined, frames |-> frames]
getErrorStack(error) ==
    IF error.t = "Error" THEN Stack(TRUE, error.stack) ELSE Stack(FALSE, <<>>)

\* the text of path ends the text of file: both are absolute, so the match
\* begins at a separator of file
EndsWith(file, path) ==
    /\ Len(path) <= Len(file)
    /\ SubSeq(file, Len(file) - Len(path) + 1, Len(file)) = path

\* the regular expression <filePath>:(\d+):(\d+) matches in the text of this
\* line of the stack; a line without a column has no second number
MatchesLine(entry, filePath) == EndsWith(entry.file, filePath) /\ entry.column > 0

Location(found, file, line, column) ==
    [found |-> found, file |-> file, line |-> line, column |-> column]
NoLocation == Location(FALSE, <<>>, 0, 0)

\* the first match of the expression in the stack
FirstMatch(frames, filePath) ==
    CHOOSE i \in 1..Len(frames) :
        /\ MatchesLine(frames[i], filePath)
        /\ \A j \in 1..(i - 1) : ~MatchesLine(frames[j], filePath)

\* extractSourceLocation: `${filePath}:${match[1]}:${match[2]}` or null
extractSourceLocation(frames, filePath) ==
    IF \E i \in 1..Len(frames) : MatchesLine(frames[i], filePath)
    THEN Location(TRUE, filePath, frames[FirstMatch(frames, filePath)].line,
                  frames[FirstMatch(frames, filePath)].column)
    ELSE NoLocation

\* what the reporter was handed and the lines it wrote to the output channel:
\* 'Execution failed: <message>' and, if a location was found, 'Source
\* location: <location>'
Report(op, error, filePath, message, location) ==
    [op |-> op, error |-> error, filePath |-> filePath, message |-> message,
     location |-> location]
NoReport == Report("none", Nothing, <<>>, NoError, NoLocation)

reportExecutionError(error, filePath) ==
    Report("reportExecutionError", error, filePath, getErrorMessage(error),
           IF getErrorStack(error).defined
           THEN extractSourceLocation(getErrorStack(error).frames, filePath)
           ELSE NoLocation)

----------------------------------------------------------------------------
(* McpManager: the optional MCP server process and its definition provider *)

\* a child process made by childProcess.spawn, with the closure of the spawn
\* attempt that made it.  life: "alive", "killed" (kill() was called on it),
\* "exited" ('exit' was emitted), "failed" (it could not be spawned; 'error'
\* is still to be emitted) or "errored".  banner: whether the startup banner
\* is not written, "written" to stderr and not yet handed to the 'data'
\* listener, or "read".  timer: startTimeout.  started: the closure's flag.
\* resolved: the attempt's promise, "pending", "started" or "notStarted"
Proc(life, banner, timer, started, resolved) ==
    [life |-> life, banner |-> banner, timer |-> timer, started |-> started,
     resolved |-> resolved]

\* a startMcpServer call suspended at `await this.trySpawnMcpServer`: which
\* of its two attempts it waits for, and the process of that attempt
StartCall(attempt, proc) == [attempt |-> attempt, proc |-> proc]

\* globalState's two flags, whether the user has ever chosen Enable, whether
\* activate() has run, the manager's handle (an index into procs), every
\* process spawned so far, the suspended calls, and the provider's last answer
Mcp(enabled, approved, dontAsk, activated, mcpProcess, procs, calls, provided) ==
    [enabled |-> enabled, approved |-> approved, dontAsk |-> dontAsk,
     activated |-> activated, mcpProcess |-> mcpProcess, procs |-> procs,
     calls |-> calls, provided |-> provided]

NoProcess == 0
NoMcp == Mcp(FALSE, FALSE, FALSE, FALSE, NoProcess, <<>>, <<>>, "unasked")

isMcpEnabled_Always(m) == TRUE
isMcpEnabled(m) == m.enabled

shouldPrompt(m) == ~m.dontAsk

\* ChildProcess.kill, clearTimeout and a promise's resolve: each acts once
Kill(life) == IF life = "alive" THEN "killed" ELSE life
ClearTimeout(timer) == IF timer = "armed" THEN "cleared" ELSE timer
Settle(resolved, value) == IF resolved = "pending" THEN value ELSE resolved

\* the synchronous part of trySpawnMcpServer: spawn, arm the timer, listen
trySpawnMcpServer(m, spawned) ==
    [m EXCEPT !.procs = Append(@, Proc(IF spawned THEN "alive" ELSE "failed",
                                       "none", "armed", FALSE, "pending"))]

\* startMcpServer up to its first await
startMcpServer(m, spawned) ==
    IF m.mcpProcess # NoProcess
    THEN m
    ELSE [trySpawnMcpServer(m, spawned) EXCEPT
             !.calls = Append(@, StartCall(1, Len(m.procs) + 1))]

startIfEnabled(m, spawned) ==
    IF ~isMcpEnabled(m) THEN m ELSE startMcpServer(m, spawned)

enableMcpServer(m, spawned) ==
    startMcpServer([m EXCEPT !.enabled = TRUE], spawned)

showEnablementPrompt(m, choice, spawned) ==
    IF isMcpEnabled(m) \/ ~shouldPrompt(m) THEN m
    ELSE IF choice = "Enable" THEN enableMcpServer(m, spawned)
    ELSE IF choice = "Don't Ask Again" THEN [m EXCEPT !.dontAsk = TRUE]
    ELSE m

stopMcpServer(m) ==
    IF m.mcpProcess # NoProcess
    THEN [m EXCEPT !.procs[m.mcpProcess].life = Kill(@),
                   !.mcpProcess = NoProcess]
    ELSE m

provideMcpServerDefinitions(m) == IF ~m.enabled THEN "none" ELSE "one"

\* proc.stderr's 'data' listener, for the chunk that holds the banner
OnStderrData(m, p) ==
    IF ~m.procs[p].started
    THEN [m EXCEPT !.procs[p].banner = "read",
                   !.procs[p].started = TRUE,
                   !.procs[p].timer = ClearTimeout(@),
                   !.procs[p].resolved = Settle(@, "started"),
                   !.mcpProcess = p]
    ELSE [m EXCEPT !.procs[p].banner = "read"]

\* startTimeout's callback
OnStartTimeout(m, p) ==
    IF ~m.procs[p].started
    THEN [m EXCEPT !.procs[p].timer = "fired",
                   !.procs[p].life = Kill(@),
                   !.procs[p].resolved = Settle(@, "notStarted")]
    ELSE [m EXCEPT !.procs[p].timer = "fired"]

\* the 'exit' ('error') listeners: the attempt's own, and the lifecycle one
\* that the 'data' listener attached if it had accepted the process
OnExit(m, p, life) ==
    [m EXCEPT !.procs[p].life = life,
              !.procs[p].timer = ClearTimeout(@),
              !.procs[p].resolved =
                  IF m.procs[p].started THEN @ ELSE Settle(@, "notStarted"),
              !.mcpProcess = IF m.procs[p].started THEN NoProcess ELSE @]

\* startMcpServer after an await: done, the fallback attempt, or the failure
Without(calls, i) == SubSeq(calls, 1, i - 1) \o SubSeq(calls, i + 1, Len(calls))
ResumeStart(m, i, spawned) ==
    IF m.procs[m.calls[i].proc].resolved = "started"
    THEN [m EXCEPT !.calls = Without(@, i)]
    ELSE IF m.calls[i].attempt = 1
    THEN [trySpawnMcpServer(m, spawned) EXCEPT
             !.calls[i] = StartCall(2, Len(m.procs) + 1)]
    ELSE [m EXCEPT !.calls = Without(@, i)]

McpIdle == mcp = NoMcp
\* an event: "open", "ready", "edit" or "save" ("" for any other); the saved
\* document; whether the step resumed the call that the event's handler made
Event(kind, doc, resumed) == [kind |-> kind, doc |-> doc, resumed |-> resumed]
NoEvent == Event("", "", FALSE)
TrackIdle == track = <<>> /\ handled = NoEvent

----------------------------------------------------------------------------
(* The webview's renderEntities: typed buffers and their validation *)

\* an attribute as the message carries it: shape is "absent", "numbers" (a
\* flat array), "arrays" (an array of arrays) or "objects" (an array of typed
\* arrays); numbers are in tenths
Buffer(shape, items) == [shape |-> shape, items |-> items]
NoBuffer == Buffer("absent", <<>>)

\* a typed array of the processed entity, or the property left unset
Typed(present, data) == [present |-> present, data |-> data]
NoTyped == Typed(FALSE, <<>>)

\* what a Float32Array holds for undefined
Float32NaN == -1000000

\* array.flat()
RECURSIVE flat(_)
flat(items) == IF items = <<>> THEN <<>> ELSE Head(items) \o flat(Tail(items))

Component(e, i) == IF i <= Len(e) THEN e[i] ELSE Float32NaN

\* flatMap(p => [p[0], p[1], p[2]])
flatMap3(items) ==
    flat([i \in 1..Len(items) |->
            <<Component(items[i], 1), Component(items[i], 2), Component(items[i], 3)>>])

\* flatMap(c => [c[0], c[1], c[2], c[3] || 1.0])
flatMapColors(items) ==
    flat([i \in 1..Len(items) |->
            <<Component(items[i], 1), Component(items[i], 2), Component(items[i], 3),
              IF Len(items[i]) >= 4 /\ items[i][4] # 0 THEN items[i][4] ELSE 10>>])

\* the flattening of positions, normals and indices
flatten(buf) ==
    CASE buf.shape = "arrays" -> flat(buf.items)
      [] buf.shape = "objects" -> flatMap3(buf.items)
      [] OTHER -> buf.items

flattenColors(buf) ==
    CASE buf.shape = "arrays" -> flat(buf.items)
      [] buf.shape = "objects" -> flatMapColors(buf.items)
      [] OTHER -> buf.items

\* new Float32Array(flat), for an attribute the entity has
toTyped(buf, data) == IF buf.shape = "absent" THEN NoTyped ELSE Typed(TRUE, data)

RECURSIVE maxIndex(_)
maxIndex(flatIndices) ==
    IF flatIndices = <<>> THEN 0
    ELSE LET rest == maxIndex(Tail(flatIndices))
         IN  IF Head(flatIndices) > rest THEN Head(flatIndices) ELSE rest

MaxUint16 == 65535
\* new Uint16Array(flatIndices)
toUint16(flatIndices) == [i \in 1..Len(flatIndices) |-> flatIndices[i] % (MaxUint16 + 1)]

IndexErrorMessage == "Rendering failed: Mesh has index (> 65535). drawMesh uses uint16 indices."
NoEntityMessage == "No entity data received"

\* the fallback normals: (0, 0, 1) for every vertex
fallbackNormals(expectedNormals) ==
    [i \in 1..expectedNormals |-> IF i % 3 = 0 THEN 10 ELSE 0]

NeutralGray == <<7, 7, 7, 10>>

\* NormalsMismatch that lets a buffer longer than expected through
NormalsMismatch_Shorter(normals, expectedNormals) ==
    normals.present /\ Len(normals.data) < expectedNormals

\* processed.geometry.normals && normals.length !== expectedNormals
NormalsMismatch(normals, expectedNormals) ==
    normals.present /\ Len(normals.data) # expectedNormals

\* ColorsMismatch that lets a buffer longer than expected through
ColorsMismatch_Shorter(colors, expectedColors) ==
    colors.present /\ Len(colors.data) < expectedColors

\* processed.geometry.colors && colors.length !== expectedColors
ColorsMismatch(colors, expectedColors) ==
    colors.present /\ Len(colors.data) # expectedColors

Visuals(color, useVertexColors) == [color |-> color, useVertexColors |-> useVertexColors]
Geometry(type, positions, normals, colors, indices) ==
    [type |-> type, positions |-> positions, normals |-> normals, colors |-> colors,
     indices |-> indices]
RenderEntity(visuals, geometry) == [visuals |-> visuals, geometry |-> geometry]

\* the attribute validation at the end of the map callback; vertexCount is
\* Math.floor(positions.length / 3)
validate(visuals, type, positions, normals, colors, indices, vertexCount) ==
    IF ~(positions.present /\ Len(positions.data) > 0)
    THEN RenderEntity(visuals, Geometry(type, positions, normals, colors, indices))
    ELSE RenderEntity(
             IF ColorsMismatch(colors, vertexCount * 4)
             THEN Visuals(IF visuals.color = <<>> THEN NeutralGray ELSE visuals.color,
                          FALSE)
             ELSE visuals,
             Geometry(type, positions,
                      IF NormalsMismatch(normals, vertexCount * 3)
                      THEN Typed(TRUE, fallbackNormals(vertexCount * 3)) ELSE normals,
                      IF ColorsMismatch(colors, vertexCount * 4) THEN NoTyped ELSE colors,
                      indices))

\* the map callback of renderEntities on one entity
processEntity(entity) ==
    IF entity.geometry.indices.shape # "absent"
         /\ maxIndex(flatten(entity.geometry.indices)) > MaxUint16
    THEN [threw |-> TRUE, processed |-> entity]
    ELSE [threw |-> FALSE,
          processed |->
              validate(entity.visuals, entity.geometry.type,
                       toTyped(entity.geometry.positions, flatten(entity.geometry.positions)),
                       toTyped(entity.geometry.normals, flatten(entity.geometry.normals)),
                       toTyped(entity.geometry.colors,
                               flattenColors(entity.geometry.colors)),
                       toTyped(entity.geometry.indices,
                               toUint16(flatten(entity.geometry.indices))),
                       Len(flatten(entity.geometry.positions)) \div 3)]

View(op, entities, ok, error, processed) ==
    [op |-> op, entities |-> entities, ok |-> ok, error |-> error, processed |-> processed]
NoView == View("none", <<>>, TRUE, NoError, <<>>)

\* renderEntities(entities): every entity processed and drawn, or the error
\* of the first entity that threw shown instead
renderEntities(entities) ==
    IF \E i \in 1..Len(entities) : processEntity(entities[i]).threw
    THEN View("renderEntities", entities, FALSE, IndexErrorMessage, <<>>)
    ELSE View("renderEntities", entities, TRUE, NoError,
              [i \in 1..Len(entities) |-> processEntity(entities[i]).processed])

ViewIdle == view = NoView
RestIdle == ViewIdle /\ report = NoReport /\ lookup = NoLookup /\ McpIdle /\ TrackIdle

----------------------------------------------------------------------------
(* The ParameterCache under direct calls: SpecParams *)

Paths == {"index.jscad", "part.jscad"}
Names == {"n", "m"}

\* the values a parameterChanged message or a direct call can carry
EditValues ==
    { Num(20), Num(-15), NaN, Null, Undefined, Bool(TRUE), Bool(FALSE),
      Str(<<"7">>), Str(<<" ", "2", ".", "5">>), Str(<<"a", "b">>), Str(<<"g">>),
      Str(<<"2">>), Str(<<"T", "R", "U", "E">>), Str(<<"#", "0", "F", "0">>) }
FewValues == {Num(20), Str(<<"a", "b">>)}
\* every value is tried on one parameter of one script, a few on the others
ValuesFor(p, n) == IF p = "index.jscad" /\ n = "n" THEN EditValues ELSE FewValues

NoValues == <<>>
DefsN ==
    { Def("n", "int", Num(10), Undefined, FALSE, NoValues),
      Def("n", "int", Undefined, Undefined, FALSE, NoValues),
      Def("n", "int", Num(15), Undefined, FALSE, NoValues),
      Def("n", "number", Num(15), Undefined, FALSE, NoValues),
      Def("n", "slider", Undefined, Undefined, FALSE, NoValues),
      Def("n", "checkbox", Undefined, Bool(TRUE), FALSE, NoValues),
      Def("n", "checkbox", Undefined, Undefined, FALSE, NoValues),
      Def("n", "choice", Undefined, Undefined, TRUE, <<Str(<<"r">>), Str(<<"g">>)>>),
      Def("n", "choice", Num(20), Undefined, TRUE, <<Num(10), Num(20)>>),
      Def("n", "choice", Undefined, Undefined, TRUE, <<>>),
      Def("n", "choice", Undefined, Undefined, FALSE, NoValues),
      Def("n", "text", Str(<<"a", "b">>), Undefined, FALSE, NoValues),
      Def("n", "text", Undefined, Undefined, FALSE, NoValues),
      Def("n", "color", Str(<<"#", "f", "f", "5", "5", "5", "5">>), Undefined, FALSE, NoValues) }
DefsM ==
    { Def("m", "int", Undefined, Undefined, FALSE, NoValues),
      Def("m", "checkbox", Undefined, Bool(TRUE), FALSE, NoValues) }
PairedN ==
    { Def("n", "int", Num(10), Undefined, FALSE, NoValues),
      Def("n", "text", Undefined, Undefined, FALSE, NoValues) }

\* definition lists with unique names, as the data model requires
DefLists ==
    {<<>>} \cup {<<d>> : d \in DefsN} \cup {<<d, e>> : d \in PairedN, e \in DefsM}
        \cup {<<e, d>> : e \in DefsM, d \in PairedN}

NoDefs == <<>>
Call(op, path, name, value, defs, merged) ==
    [op |-> op, path |-> path, name |-> name, value |-> value, defs |-> defs,
     merged |-> merged]

Entries(c) == {<<p, n>> \in Paths \X Names : p \in DOMAIN c /\ n \in DOMAIN c[p]}

InitParams ==
    /\ cache = [p \in {} |-> EmptyMap]
    /\ stored = [p \in {} |-> EmptyMap]
    /\ plast = Call("new", "", "", Undefined, NoDefs, EmptyMap)
    /\ files = [p \in Paths |-> Script(TRUE, "absent", <<>>, "one")]
    /\ requireCache = PristineRequire
    /\ runs = <<>>
    /\ HostIdle
    /\ RestIdle

PUpdateParameter ==
    \E p \in Paths, n \in Names :
      \E v \in ValuesFor(p, n) :
        /\ cache' = updateParameter(cache, p, n, v)
        /\ stored' = saveToStorage(cache')
        /\ plast' = Call("updateParameter", p, n, v, NoDefs, EmptyMap)

PGetMergedParameters ==
    \E p \in Paths, defs \in DefLists :
        /\ plast' = Call("getMergedParameters", p, "", Undefined, defs,
                         getMergedParameters(cache, p, defs))
        /\ UNCHANGED <<cache, stored>>

PClear ==
    \E p \in Paths :
        /\ cache' = clear(cache, p)
        /\ stored' = saveToStorage(cache')
        /\ plast' = Call("clear", p, "", Undefined, NoDefs, EmptyMap)

PClearAll ==
    /\ cache' = clearAll(cache)
    /\ stored' = saveToStorage(cache')
    /\ plast' = Call("clearAll", "", "", Undefined, NoDefs, EmptyMap)

NextParams ==
    \/ PUpdateParameter /\ UNCHANGED <<engineVars, hostVars, restVars>>
    \/ PGetMergedParameters /\ UNCHANGED <<engineVars, hostVars, restVars>>
    \/ PClear /\ UNCHANGED <<engineVars, hostVars, restVars>>
    \/ PClearAll /\ UNCHANGED <<engineVars, hostVars, restVars>>

SpecParams == InitParams /\ [][NextParams]_vars

----------------------------------------------------------------------------
(* Parameter resolution: what the last getMergedParameters call returned *)

Resolved == plast.op = "getMergedParameters"
ResolvedDefs == {plast.defs[i] : i \in 1..Len(plast.defs)}
ResolvedCached == CachedFor(cache, plast.path)
ResolvedSeeds == SeedDefaults(plast.defs, Len(plast.defs))
Persisted(d) == d.name \in DOMAIN ResolvedCached

\* a value of the definition's kind, judged by its type alone
WellFormed(d, v) ==
    CASE d.type = "int" -> v.t = "number" /\ v.n % 10 = 0
      [] d.type \in {"number", "float", "slider"} -> v.t = "number"
      [] d.type = "checkbox" -> v.t = "boolean"
      [] OTHER -> TRUE

FailsCoercion(d, v) == v # Undefined /\ coerceValue(d, v) = Undefined

\* C7 as stated: neither the persisted store nor a resolved map holds a value
\* that fails coercion for the kind of its definition.
C7_NeverStoredMalformed ==
    Resolved =>
        \A d \in ResolvedDefs :
            /\ Persisted(d) => ~FailsCoercion(d, ResolvedCached[d.name])
            /\ d.name \in DOMAIN plast.merged => ~FailsCoercion(d, plast.merged[d.name])

\* C7 (amended): the store holds every edit exactly as it was received, and a
\* resolved value of a numeric, integer or boolean parameter is the seeded
\* default or a well-formed value of that kind: a persisted value that fails
\* coercion is dropped at resolution, not at storage.
C7_MalformedDroppedOnResolve ==
    /\ plast.op = "updateParameter" =>
          /\ plast.path \in DOMAIN cache
          /\ plast.name \in DOMAIN cache[plast.path]
          /\ cache[plast.path][plast.name] = plast.value
          /\ stored = cache
    /\ Resolved =>
          \A d \in ResolvedDefs :
              d.name \in DOMAIN plast.merged =>
                  \/ /\ d.name \in DOMAIN ResolvedSeeds
                     /\ plast.merged[d.name] = ResolvedSeeds[d.name]
                  \/ WellFormed(d, plast.merged[d.name])

C7_Witness ==
    /\ Resolved
    /\ \E d \in ResolvedDefs :
          /\ d.type \in {"int", "number", "slider"}
          /\ Persisted(d)
          /\ ResolvedCached[d.name].t \in {"string", "nan"}
          /\ ~WellFormed(d, ResolvedCached[d.name])
          /\ d.name \in DOMAIN plast.merged
          /\ plast.merged[d.name] = d.initial

\* C8: a persisted entry that matches a definition replaces the seeded default
\* exactly when its coercion succeeds; when the coercion fails the resolved
\* value is the seeded default (and there is none where nothing was seeded).
C8_OverrideIffCoerced ==
    Resolved =>
        \A d \in ResolvedDefs :
            Persisted(d) =>
                LET coerced == coerceValue(d, ResolvedCached[d.name])
                IN  IF coerced # Undefined
                    THEN /\ d.name \in DOMAIN plast.merged
                         /\ plast.merged[d.name] = coerced
                    ELSE /\ d.name \in DOMAIN plast.merged <=> d.name \in DOMAIN ResolvedSeeds
                         /\ d.name \in DOMAIN ResolvedSeeds =>
                                plast.merged[d.name] = ResolvedSeeds[d.name]

C8_Witness ==
    /\ Resolved
    /\ \E d \in ResolvedDefs :
          /\ Persisted(d)
          /\ d.name \in DOMAIN ResolvedSeeds
          /\ coerceValue(d, ResolvedCached[d.name]) # Undefined
          /\ plast.merged[d.name] # ResolvedSeeds[d.name]
          /\ plast.merged[d.name] # ResolvedCached[d.name]

HasDefault(d) ==
    \/ d.type = "checkbox"
    \/ d.type = "choice" /\ d.hasValues /\ Len(d.values) > 0
    \/ d.initial # Undefined

\* C9 as stated: the resolved map has an entry for every definition.
C9_EveryDefinitionResolved ==
    Resolved => \A d \in ResolvedDefs : d.name \in DOMAIN plast.merged

\* C9 (amended): the resolved map has an entry for a definition exactly when
\* the definition is a checkbox, a choice with a non-empty allowed list, or
\* declares an initial value, or when a persisted value for it coerces; a
\* definition with none of these is left out of the map.
C9_ResolvedIffDefaultOrOverride ==
    Resolved =>
        \A d \in ResolvedDefs :
            d.name \in DOMAIN plast.merged <=>
                \/ HasDefault(d)
                \/ Persisted(d) /\ ResolvedCached[d.name] # Undefined
                                /\ ~FailsCoercion(d, ResolvedCached[d.name])

C9_Witness ==
    /\ Resolved
    /\ \E d \in ResolvedDefs : ~HasDefault(d) /\ d.name \notin DOMAIN plast.merged
    /\ \E d \in ResolvedDefs : HasDefault(d) /\ d.name \in DOMAIN plast.merged

\* the allowed values of a choice (none when the script gave no array)
Allowed(d) == IF d.hasValues THEN d.values ELSE <<>>
StringEqual(d, v) == {i \in 1..Len(Allowed(d)) : ToStr(Allowed(d)[i]) = ToStr(v)}

Declared(d) ==
    IF d.type = "checkbox"
    THEN (IF d.checked \in {Undefined, Null} THEN Bool(FALSE) ELSE d.checked)
    ELSE IF d.initial # Undefined THEN d.initial
    ELSE IF d.type = "choice" /\ Len(Allowed(d)) > 0 THEN Allowed(d)[1]
    ELSE Undefined

DeclaresDefault(d) ==
    \/ d.type = "checkbox"
    \/ d.initial # Undefined
    \/ d.type = "choice" /\ Len(Allowed(d)) > 0

\* C11 as stated: without a persisted override the resolved value is the
\* declared default itself: the checked flag (false when absent), the
\* initial value, or the first allowed value of a choice without initial.
C11_SeededDefaultAsDeclared ==
    Resolved =>
        \A d \in ResolvedDefs :
            (~Persisted(d) /\ DeclaresDefault(d)) =>
                /\ d.name \in DOMAIN plast.merged
                /\ plast.merged[d.name] = Declared(d)

\* C11 (amended): without a persisted override the resolved value of a
\* checkbox is its checked flag (false when absent), and that of any other
\* kind is its declared default (the initial value, else the first allowed
\* value of a choice) coerced to the kind; a definition that declares no
\* default has no entry.
C11_SeededDefaultCoerced ==
    Resolved =>
        \A d \in ResolvedDefs :
            ~Persisted(d) =>
                IF DeclaresDefault(d)
                THEN /\ d.name \in DOMAIN plast.merged
                     /\ plast.merged[d.name] =
                            IF d.type = "checkbox" THEN Declared(d)
                            ELSE coerceValue(d, Declared(d))
                ELSE d.name \notin DOMAIN plast.merged

\* a default that resolution changed: the declared initial value is not the
\* resolved one
C11_Witness ==
    /\ Resolved
    /\ \E d \in ResolvedDefs :
          /\ ~Persisted(d)
          /\ d.initial # Undefined
          /\ d.name \in DOMAIN plast.merged
          /\ plast.merged[d.name] # d.initial

EditOf(p, n) ==
    /\ plast'.op = "updateParameter"
    /\ plast'.path = p
    /\ plast'.name = n
\* the step is a clear that covers file p
ClearOf(p) ==
    \/ plast'.op = "clear" /\ plast'.path = p
    \/ plast'.op = "clearAll"

----------------------------------------------------------------------------
(* The engine under direct calls, as its tests make them: SpecEngine *)

MaxRuns == 2

ScriptDefs == <<Def("n", "int", Num(10), Undefined, FALSE, NoValues)>>
CubeScript == Script(TRUE, "absent", <<>>, "one")
ParamScript == Script(TRUE, "list", ScriptDefs, "one")
SyntaxErrorScript == Script(FALSE, "absent", <<>>, "absent")
NoMainScript == Script(TRUE, "absent", <<>>, "absent")
NumberMainScript == Script(TRUE, "absent", <<>>, "number")
NoExportsScript == Script(TRUE, "absent", <<>>, "noExports")
RuntimeErrorScript == Script(TRUE, "list", ScriptDefs, "throws")
ThrowsStringScript == Script(TRUE, "absent", <<>>, "throwsString")
MetadataThrowsScript == Script(TRUE, "throws", <<>>, "many")
MetadataNullScript == Script(TRUE, "null", <<>>, "one")
MetadataObjectScript == Script(TRUE, "object", <<>>, "one")
AsyncScript == Script(TRUE, "asyncList", ScriptDefs, "one")
AsyncRejectScript == Script(TRUE, "asyncReject", <<>>, "one")
NullResultScript == Script(TRUE, "absent", <<>>, "null")
OutlinesScript == Script(TRUE, "absent", <<>>, "flat")
CounterScript == Script(TRUE, "absent", <<>>, "modvar")
SharedCounterScript == Script(TRUE, "absent", <<>>, "shared")

EngineScripts(p) ==
    IF p = "index.jscad"
    THEN { CubeScript, ParamScript, SyntaxErrorScript, NoMainScript, NumberMainScript,
           NoExportsScript, MetadataThrowsScript, MetadataNullScript, AsyncRejectScript,
           OutlinesScript, CounterScript, SharedCounterScript }
    ELSE { CubeScript, SharedCounterScript }

\* the parameter maps a caller passes: none, or a value for the parameter
\* the script declares
EngineParams(script) ==
    IF Len(script.defs) > 0 THEN {EmptyMap, [k \in {"n"} |-> Num(20)]} ELSE {EmptyMap}

Run(fn, path, script, params, threw, error, value, sawLib, sawModVar) ==
    [fn |-> fn, path |-> path, script |-> script, params |-> params, threw |-> threw,
     error |-> error, value |-> value, sawLib |-> sawLib, sawModVar |-> sawModVar]

InitFiles == files \in [Paths -> {CubeScript}]

InitEngine ==
    /\ cache = [p \in {} |-> EmptyMap]
    /\ stored = [p \in {} |-> EmptyMap]
    /\ plast = Call("new", "", "", Undefined, NoDefs, EmptyMap)
    /\ InitFiles
    /\ requireCache = PristineRequire
    /\ runs = <<>>
    /\ HostIdle
    /\ RestIdle

\* the user rewrites a script
EWriteFile ==
    \E p \in Paths :
      \E s \in EngineScripts(p) :
        /\ files' = [files EXCEPT ![p] = s]
        /\ UNCHANGED <<requireCache, runs>>

\* await executeJscadFile(filePath, outputChannel, params)
EExecute ==
    \E p \in Paths : \E params \in EngineParams(files[p]) :
        LET x == executeJscadFile(files[p], params, requireCache) IN
        /\ Len(runs) < MaxRuns
        /\ requireCache' = x.rc
        /\ runs' = Append(runs, Run("executeJscadFile", p, files[p], params, x.threw,
                                    x.error, x.entities, x.sawLib, x.sawModVar))
        /\ UNCHANGED files

\* await getParameterDefinitions(filePath, outputChannel)
EIntrospect ==
    \E p \in Paths :
        LET d == getParameterDefinitions(files[p]) IN
        /\ Len(runs) < MaxRuns
        /\ runs' = Append(runs, Run("getParameterDefinitions", p, files[p], EmptyMap,
                                    d.rejected, d.error, d.value, 0, 0))
        /\ UNCHANGED <<files, requireCache>>

NextEngine ==
    \/ EWriteFile /\ UNCHANGED <<paramVars, hostVars, restVars>>
    \/ EExecute /\ UNCHANGED <<paramVars, hostVars, restVars>>
    \/ EIntrospect /\ UNCHANGED <<paramVars, hostVars, restVars>>

SpecEngine == InitEngine /\ [][NextEngine]_vars

Executions == {i \in 1..Len(runs) : runs[i].fn = "executeJscadFile"}
Introspections == {i \in 1..Len(runs) : runs[i].fn = "getParameterDefinitions"}

\* C1: every execution of a script finds the state a brand-new context has:
\* its module-level counter and the counter of the module it require()s are
\* both as no earlier execution had touched them.
C1_FreshContextEveryExecution ==
    \A i \in Executions : runs[i].sawModVar = 0 /\ runs[i].sawLib = PristineRequire.lib

\* C4: two executions of the same script with the same parameter map return
\* the same entities (or fail alike).
C4_RepeatableExecution ==
    \A i \in Executions : \A j \in Executions :
        (runs[i].script = runs[j].script /\ runs[i].params = runs[j].params) =>
            /\ runs[i].threw = runs[j].threw
            /\ runs[i].value = runs[j].value

\* what the entry function of run i returned: a lone geometry or an array
Returned(i) == RunMain(loadJscadModuleFromFile(runs[i].script), runs[i].params, requireCache).raw
Succeeded == {i \in Executions : ~runs[i].threw}
DeclaredType(g) == IF g.kind = "geom3" THEN "3d" ELSE "2d"
\* the scripts whose geometry depends on nothing but the parameters
Stateless(script) == script.main \in {"one", "many", "flat"}
OneForOne(entities, items, sized) ==
    /\ Len(entities) = Len(items)
    /\ \A k \in 1..Len(items) :
          /\ entities[k].type = DeclaredType(items[k])
          /\ sized => entities[k].size = items[k].size

C17_MissingEntryFunctionReported ==
    \A i \in Executions :
        (runs[i].script.syntaxOk /\ runs[i].script.main \in NoEntryFunction) =>
            /\ runs[i].threw
            /\ getErrorMessage(runs[i].error) = NoMainMessage

\* C5: introspection never throws, and it returns the empty list unless the
\* script loads and its metadata function returns a list.
C5_IntrospectionBestEffort ==
    \A i \in Introspections :
        /\ ~runs[i].threw
        /\ (~runs[i].script.syntaxOk \/ runs[i].script.gpd \notin {"list", "asyncList"})
              => runs[i].value = DefsArray(<<>>)

----------------------------------------------------------------------------
(* The extension host: commands, webview messages and saves: Spec *)

MaxPending == 1

Workspaces ==
    { Workspace(TRUE, "absent", ""), Workspace(FALSE, "absent", "") }
Editors == {"index.jscad", "part.jscad"}
Docs == Paths \cup {"notes.txt"}

HostScripts(p) ==
    IF p = "index.jscad"
    THEN { CubeScript, ParamScript, SyntaxErrorScript, RuntimeErrorScript,
           ThrowsStringScript, MetadataThrowsScript, MetadataObjectScript, AsyncScript,
           AsyncRejectScript, NullResultScript }
    ELSE { CubeScript, AsyncScript }

\* what the parameter panel posts for a number input: parseFloat of its text
HostValues == {Num(70), NaN}

Init ==
    /\ cache = [p \in {} |-> EmptyMap]
    /\ stored = [p \in {} |-> EmptyMap]
    /\ plast = Call("new", "", "", Undefined, NoDefs, EmptyMap)
    /\ InitFiles
    /\ requireCache = PristineRequire
    /\ runs = <<>>
    /\ ws \in Workspaces
    /\ editor = ""
    /\ panel = "closed"
    /\ currentEntrypoint = ""
    /\ shown = NoShown
    /\ pending = <<>>
    /\ completed = NoInv
    /\ RestIdle

\* the assignments one handler's executeAndRender call makes
Apply(h) ==
    \E r \in {h} :
        /\ Len(r.pending) <= MaxPending
        /\ currentEntrypoint' = r.cur
        /\ pending' = r.pending
        /\ completed' = r.completed
        /\ requireCache' = r.rc
        /\ shown' = r.shown

\* the assignments the rest of a suspended executeAndRender call makes
Settled(f) ==
    \E r \in {f} :
        /\ completed' = r.completed
        /\ requireCache' = r.rc
        /\ shown' = r.shown

\* the hootcad.openPreview command: createOrShowPreview
OpenPreview ==
    LET entrypoint == resolveJscadEntrypoint(ws, DOMAIN files, editor) IN
    /\ IF entrypoint = NoEntrypoint
       THEN /\ completed' = NoInv
            /\ UNCHANGED <<panel, currentEntrypoint, shown, pending, requireCache>>
       ELSE IF panel # "closed"
       THEN /\ Apply(executeAndRender(entrypoint.filePath, files, cache,
                                      entrypoint.filePath, pending, requireCache,
                                      panel, shown))
            /\ UNCHANGED panel
       ELSE /\ panel' = "created"
            /\ currentEntrypoint' = entrypoint.filePath
            /\ completed' = NoInv
            /\ UNCHANGED <<shown, pending, requireCache>>
    /\ UNCHANGED <<cache, stored, plast, files, runs, ws, editor>>

\* the 'ready' handler without its executeAndRender call
WebviewReady_NoExecute ==
    /\ panel = "created"
    /\ panel' = "ready"
    /\ completed' = NoInv
    /\ UNCHANGED <<currentEntrypoint, shown, pending, requireCache>>
    /\ UNCHANGED <<cache, stored, plast, files, runs, ws, editor>>

\* handleWebviewMessage, 'ready': the webview finished loading
WebviewReady ==
    /\ panel = "created"
    /\ panel' = "ready"
    /\ IF currentEntrypoint # ""
       THEN Apply(executeAndRender(currentEntrypoint, files, cache, currentEntrypoint,
                                   pending, requireCache, "ready", shown))
       ELSE /\ completed' = NoInv
            /\ UNCHANGED <<currentEntrypoint, shown, pending, requireCache>>
    /\ UNCHANGED <<cache, stored, plast, files, runs, ws, editor>>

\* handleWebviewMessage, 'parameterChanged': the user edits an input of the
\* parameter panel
ParameterChangedTo(name, value) ==
    /\ panel = "ready"
    /\ shown # NoShown
    /\ \E i \in 1..Len(shown.defs) : shown.defs[i].name = name
    /\ cache' = updateParameter(cache, shown.path, name, value)
    /\ stored' = saveToStorage(cache')
    /\ Apply(executeAndRender(shown.path, files, cache', currentEntrypoint, pending,
                              requireCache, panel, shown))
    /\ UNCHANGED <<plast, files, runs, ws, editor, panel>>

ParameterChanged == \E name \in Names, value \in HostValues : ParameterChangedTo(name, value)

\* onDidSaveTextDocument: the document reaches the disk, then the watcher runs
SaveDocumentAs(doc, content) ==
        LET saved == IF doc \in Paths THEN [files EXCEPT ![doc] = content] ELSE files
            entrypoint == resolveJscadEntrypoint(ws, DOMAIN files, editor)
        IN
        /\ files' = saved
        /\ IF endsWithJscad(doc) /\ panel # "closed" /\ entrypoint # NoEntrypoint
           THEN Apply(executeAndRender(entrypoint.filePath, saved, cache,
                                       currentEntrypoint, pending, requireCache, panel,
                                       shown))
           ELSE /\ completed' = NoInv
                /\ UNCHANGED <<currentEntrypoint, shown, pending, requireCache>>
        /\ UNCHANGED <<cache, stored, plast, runs, ws, editor, panel>>

SaveDocument ==
    \E doc \in Docs :
      \E content \in (IF doc \in Paths THEN HostScripts(doc) ELSE {CubeScript}) :
        SaveDocumentAs(doc, content)

\* onDidDispose: the user closes the preview
DisposePanel ==
    /\ panel # "closed"
    /\ panel' = "closed"
    /\ currentEntrypoint' = ""
    /\ shown' = NoShown
    /\ completed' = NoInv
    /\ UNCHANGED <<cache, stored, plast, files, requireCache, runs, ws, editor, pending>>

\* the promise a script's metadata function returned settles: the suspended
\* executeAndRender call goes on to its end
SettleDefinitionsOf(i) ==
    /\ i \in 1..Len(pending)
    /\ pending' = SubSeq(pending, 1, i - 1) \o SubSeq(pending, i + 1, Len(pending))
    /\ Settled(Finish(pending[i], files, cache, requireCache, panel, shown))
    /\ UNCHANGED <<cache, stored, plast, files, runs, ws, editor, panel,
                   currentEntrypoint>>

SettleDefinitions == \E i \in 1..MaxPending : SettleDefinitionsOf(i)

\* the user moves to another editor tab
ChangeActiveEditor ==
    \E e \in Editors \ {editor} :
        /\ editor' = e
        /\ completed' = NoInv
        /\ UNCHANGED <<cache, stored, plast, files, requireCache, runs, ws, panel,
                       currentEntrypoint, shown, pending>>

Next ==
    \/ OpenPreview /\ UNCHANGED restVars
    \/ WebviewReady /\ UNCHANGED restVars
    \/ ParameterChanged /\ UNCHANGED restVars
    \/ SaveDocument /\ UNCHANGED restVars
    \/ DisposePanel /\ UNCHANGED restVars
    \/ SettleDefinitions /\ UNCHANGED restVars
    \/ ChangeActiveEditor /\ UNCHANGED restVars

Spec == Init /\ [][Next]_vars

----------------------------------------------------------------------------
(* The orchestrated invocation: its stages and its outcome *)

StageOrder == <<"introspect", "resolve", "execute", "normalize">>
Done == completed.outcome # "none"
StagesRun == 1..Len(completed.stages)
InOrder ==
    /\ Len(completed.stages) <= Len(StageOrder)
    /\ \A i \in StagesRun : completed.stages[i].name = StageOrder[i]

\* the failure of the introspect stage that getParameterDefinitions caught
Absorbed(i) == i = 1 /\ completed.intro.caught

IntrospectionFailed ==
    \/ completed.intro.caught
    \/ completed.intro.rejected
    \/ completed.intro.value.t # "array"

\* C2 as stated: the stages run in the fixed order, and a failed stage is the
\* last one run and makes the outcome a Failure with a message.
C2_AnyStageFailureShortCircuits ==
    Done =>
        /\ InOrder
        /\ \A i \in StagesRun :
              ~completed.stages[i].ok =>
                  /\ i = Len(completed.stages)
                  /\ completed.outcome = "Failure"
                  /\ completed.message # NoError

\* C2: the stages run in the fixed order and the invocation has one outcome.
\* A failed stage, unless it is the introspection failure that introspection
\* itself caught, is the last stage run and gives a Failure with a message
\* and no render; Success is the outcome exactly when all four stages ran
\* and none but such an introspection failed.
C2_UnabsorbedFailureShortCircuits ==
    Done =>
        /\ InOrder
        /\ completed.outcome \in {"Success", "Failure"}
        /\ \A i \in StagesRun :
              (~completed.stages[i].ok /\ ~Absorbed(i)) =>
                  /\ i = Len(completed.stages)
                  /\ completed.outcome = "Failure"
                  /\ completed.message # NoError
                  /\ completed.posted \in {<<>>, <<"error">>}
        /\ completed.outcome = "Success" <=>
              /\ Len(completed.stages) = Len(StageOrder)
              /\ \A i \in StagesRun : completed.stages[i].ok \/ Absorbed(i)
        /\ completed.outcome = "Success" =>
              /\ completed.message = NoError
              /\ completed.posted \in {<<>>, <<"renderEntities">>,
                                       <<"resetView", "renderEntities">>}

\* an invocation whose entry function threw after introspection and parameter
\* resolution went well
C2_Witness ==
    /\ Done
    /\ Len(completed.stages) = 3
    /\ completed.stages[1].ok
    /\ completed.stages[2].ok
    /\ ~completed.stages[3].ok
    /\ completed.outcome = "Failure"
    /\ completed.posted = <<"error">>

\* C3: no executeAndRender call begins for a path while another call for
\* that path is suspended.
C3_InvocationsSerialized ==
    /\ ~completed.overlapped
    /\ \A i \in 1..Len(pending) : ~pending[i].overlapped

\* C6: an invocation whose introspection failed resolves the empty parameter
\* map and ends as the execution of the script with that map ends.
C6_IntrospectionFailureNeverDecides ==
    (Done /\ IntrospectionFailed) =>
        /\ completed.resolved
        /\ completed.params = EmptyMap
        /\ (completed.outcome = "Success") =
              ~executeJscadFile(completed.script, EmptyMap, requireCache).threw

\* the finished invocation called the entry function of its script
EntryFunctionRan ==
    /\ Done
    /\ completed.resolved
    /\ completed.script.syntaxOk
    /\ completed.script.main \notin NoEntryFunction
\* what that entry function threw, Nothing if it returned
EntryFunctionThrew ==
    RunMain(loadJscadModuleFromFile(completed.script), completed.params, requireCache).error

\* C16: when the entry function of the script throws, the invocation ends in
\* Failure, the error its catch block receives is the thrown value itself
\* (same message, same stack), and the message of the Failure is the thrown
\* message.
C16_EntryFunctionErrorPropagated ==
    (EntryFunctionRan /\ EntryFunctionThrew # Nothing) =>
        /\ completed.outcome = "Failure"
        /\ completed.caught = EntryFunctionThrew
        /\ completed.message = EntryFunctionThrew.text

C16_Witness ==
    /\ EntryFunctionRan
    /\ completed.script = RuntimeErrorScript
    /\ completed.outcome = "Failure"
    /\ completed.caught = ErrorIn(BoomMessage, 4)
    /\ completed.message = BoomMessage
    /\ completed.posted = <<"error">>

\* C24: when the preview shows the parameters of one script and a render of
\* a different script reaches it, 'resetView' is posted before that
\* 'renderEntities'
C24_ResetViewOnPathSwitch ==
    [][(/\ shown # NoShown
        /\ completed'.outcome = "Success"
        /\ completed'.posted # <<>>
        /\ completed'.path # shown.path)
           => completed'.posted = <<"resetView", "renderEntities">>]_vars

\* C29: while no preview panel is open the stored entrypoint is undefined
\* and nothing is posted: disposal clears the entrypoint, and a call that
\* ends after the disposal neither posts nor sets the entrypoint again
C29_ClosedPanelIsSilent ==
    panel = "closed" =>
        /\ currentEntrypoint = ""
        /\ completed.posted = <<>>

\* a call that was suspended when the panel was disposed has ended in its
\* catch block
C29_Witness ==
    /\ panel = "closed"
    /\ completed.outcome = "Failure"

----------------------------------------------------------------------------
(* The webview under the messages the host posts: SpecView *)

Red == <<10, 0, 0, 10>>
Up == <<0, 0, 10>>
PositionBuffers ==
    { NoBuffer, Buffer("numbers", <<>>), Buffer("numbers", <<0, 0, 0>>),
      Buffer("numbers", <<0, 0, 0, 10, 0, 0>>),
      Buffer("numbers", <<0, 0, 0, 10, 0, 0, 10>>),
      Buffer("arrays", <<<<0, 0, 0>>, <<0, 10, 0>>>>) }
NormalBuffers ==
    { NoBuffer, Buffer("numbers", <<>>), Buffer("numbers", Up),
      Buffer("numbers", <<0, 10, 0, 0, 10, 0>>), Buffer("objects", <<Up>>),
      Buffer("numbers", Up \o Up \o Up) }
ColorBuffers ==
    { NoBuffer, Buffer("numbers", Red), Buffer("numbers", Red \o Red),
      Buffer("arrays", <<<<10, 0, 0>>>>), Buffer("objects", <<<<10, 0, 0>>>>),
      Buffer("numbers", <<10, 0, 0>>) }
IndexBuffers ==
    { NoBuffer, Buffer("numbers", <<0, 1, 2>>), Buffer("numbers", <<0, 1, 70000>>) }

ViewEntities ==
    { RenderEntity(Visuals(c, TRUE), Geometry(t, p, n, k, i)) :
        c \in {<<>>, Red}, t \in {"3d", "2d"}, p \in PositionBuffers, n \in NormalBuffers,
        k \in ColorBuffers, i \in IndexBuffers }

\* a well-formed triangle, and one whose index does not fit 16 bits
Triangle ==
    RenderEntity(Visuals(<<>>, TRUE),
                 Geometry("3d", Buffer("numbers", <<0, 0, 0, 10, 0, 0, 0, 10, 0>>),
                          Buffer("numbers", Up \o Up \o Up), NoBuffer,
                          Buffer("numbers", <<0, 1, 2>>)))
BigMesh ==
    RenderEntity(Visuals(<<>>, TRUE),
                 Geometry("3d", Buffer("numbers", <<0, 0, 0>>), NoBuffer, NoBuffer,
                          Buffer("arrays", <<<<0, 1, 65536>>>>)))

EntityLists ==
    {<<>>} \cup {<<e>> : e \in ViewEntities}
        \cup {<<e, f>> : e \in {Triangle, BigMesh}, f \in {Triangle, BigMesh}}

ParamsIdle ==
    /\ cache = [p \in {} |-> EmptyMap]
    /\ stored = [p \in {} |-> EmptyMap]
    /\ plast = Call("new", "", "", Undefined, NoDefs, EmptyMap)

EngineIdle ==
    /\ InitFiles
    /\ requireCache = PristineRequire
    /\ runs = <<>>

\* a message the host has posted and the webview has yet to handle
Posted(type, entities, message) == View(type, entities, TRUE, message, <<>>)

InitView ==
    /\ ParamsIdle
    /\ EngineIdle
    /\ HostIdle
    /\ report = NoReport
    /\ lookup = NoLookup
    /\ McpIdle
    /\ TrackIdle
    /\ view \in {Posted("posted renderEntities", entities, NoError) : entities \in EntityLists}
                  \cup {Posted("posted error", <<>>, m) : m \in {BoomMessage, NoMainMessage}}

\* the 'renderEntities' message
ReceiveRenderEntities ==
    /\ view.op = "posted renderEntities"
    /\ view' = IF Len(view.entities) > 0 THEN renderEntities(view.entities)
               ELSE View("renderEntities", view.entities, FALSE, NoEntityMessage, <<>>)

\* the 'error' message: showError(message.message)
ReceiveError ==
    /\ view.op = "posted error"
    /\ view' = View("error", <<>>, FALSE, view.error, <<>>)

NextView ==
    \/ ReceiveRenderEntities /\ UNCHANGED <<paramVars, engineVars, hostVars, report, lookup, mcp, track, handled>>
    \/ ReceiveError /\ UNCHANGED <<paramVars, engineVars, hostVars, report, lookup, mcp, track, handled>>

SpecView == InitView /\ [][NextView]_vars

\* the entities of the last 'renderEntities' message, and those it drew
Rendered == view.op = "renderEntities" /\ Len(view.entities) > 0
Sent(i) == view.entities[i].geometry
Drawn(i) == view.processed[i].geometry
VertexCount(i) ==
    IF Drawn(i).positions.present THEN Len(Drawn(i).positions.data) \div 3 ELSE 0
HasVertices(i) == Drawn(i).positions.present /\ Len(Drawn(i).positions.data) > 0
UpFacing(data) == \A k \in 1..Len(data) : data[k] = Up[((k - 1) % 3) + 1]
SentNormalsRagged(i) ==
    Sent(i).normals.shape # "absent" /\ Len(flatten(Sent(i).normals)) # VertexCount(i) * 3
SentColorsRagged(i) ==
    Sent(i).colors.shape # "absent" /\ Len(flattenColors(Sent(i).colors)) # VertexCount(i) * 4
RightLengths(i) ==
    /\ Drawn(i).normals.present => Len(Drawn(i).normals.data) = VertexCount(i) * 3
    /\ Drawn(i).colors.present => Len(Drawn(i).colors.data) = VertexCount(i) * 4

FitsUint16(i) ==
    Sent(i).indices.shape = "absent" \/ maxIndex(flatten(Sent(i).indices)) <= MaxUint16

----------------------------------------------------------------------------
(* The ErrorReporter under the errors an invocation can fail with: SpecReport *)

MaxStack == 3

ScriptPath == <<"w", "part.jscad">>
\* a copy of the script's folder kept under another root
MirrorPath == <<"bak", "w", "part.jscad">>
LibPath == <<"w", "lib.js">>

\* the lines a stack is made of: frames in the script, in its copy, in a
\* module it requires and in the extension, and the 'file:line' header of a
\* SyntaxError
StackLines ==
    { Frame(ScriptPath, 4, 9), Frame(ScriptPath, 10, 3), Frame(MirrorPath, 7, 2),
      Frame(LibPath, 2, 5), EngineFrame, Frame(ScriptPath, 3, 0) }
Stacks == UNION {[1..n -> StackLines] : n \in 0..MaxStack}
ReportErrors ==
    {Thrown("Error", BoomMessage, st) : st \in Stacks} \cup {Thrown("string", BoomMessage, <<>>)}
ReportPaths == {ScriptPath, <<"w", "index.jscad">>}

\* executeAndRender caught error while running filePath
Caught(error, filePath) == Report("caught", error, filePath, NoError, NoLocation)

InitReport ==
    /\ ParamsIdle
    /\ EngineIdle
    /\ HostIdle
    /\ ViewIdle
    /\ lookup = NoLookup
    /\ McpIdle
    /\ TrackIdle
    /\ report \in {Caught(error, filePath) : error \in ReportErrors, filePath \in ReportPaths}

\* this.errorReporter.reportExecutionError(error, filePath, lastParams)
ReportExecutionError ==
    /\ report.op = "caught"
    /\ report' = reportExecutionError(report.error, report.filePath)
    /\ UNCHANGED <<paramVars, engineVars, hostVars, view, lookup, mcp, track, handled>>

NextReport == ReportExecutionError

SpecReport == InitReport /\ [][NextReport]_vars

Reported == report.op = "reportExecutionError"
\* the frames of the reported error that lie in the script that was run
ScriptFrames ==
    {i \in 1..Len(report.error.stack) :
        report.error.stack[i].file = report.filePath /\ report.error.stack[i].column > 0}

\* C18: the reporter logs the line and column of a frame of the failing
\* script when the error's stack has one, and no location when it has none.
C18_LocationOfScriptFrame ==
    Reported =>
        IF ScriptFrames # {}
        THEN /\ report.location.found
             /\ \E i \in ScriptFrames :
                    /\ report.location.line = report.error.stack[i].line
                    /\ report.location.column = report.error.stack[i].column
        ELSE ~report.location.found

----------------------------------------------------------------------------
(* The entrypoint resolver over workspaces and active files: SpecResolve *)

ManifestMains == {"", "part.jscad", "index.jscad", "lib.js", "gone.jscad"}
ResolveWorkspaces ==
    {Workspace(folder, manifest, main) :
        folder \in BOOLEAN, manifest \in {"absent", "invalid", "valid"}, main \in ManifestMains}
RootFiles == SUBSET {"index.jscad", "part.jscad", "lib.js"}
ActiveFiles == {"", "other.jscad", "notes.txt"}

Asked(w, existing, activeEditorFilePath) ==
    Lookup("asked", w, existing, activeEditorFilePath, NoEntrypoint)

InitResolve ==
    /\ ParamsIdle
    /\ EngineIdle
    /\ HostIdle
    /\ ViewIdle
    /\ report = NoReport
    /\ McpIdle
    /\ TrackIdle
    /\ lookup \in {Asked(w, existing, f) :
                       w \in ResolveWorkspaces, existing \in RootFiles, f \in ActiveFiles}

\* resolveJscadEntrypointWithOptions({ workspaceRoot, activeEditorFilePath })
Resolve ==
    /\ lookup.op = "asked"
    /\ lookup' = Lookup("resolved", lookup.w, lookup.existing, lookup.activeEditorFilePath,
                        resolveJscadEntrypointWithOptions(lookup.w, lookup.existing,
                                                          lookup.activeEditorFilePath))
    /\ UNCHANGED <<paramVars, engineVars, hostVars, view, report, mcp, track, handled>>

NextResolve == Resolve

SpecResolve == InitResolve /\ [][NextResolve]_vars

Answered == lookup.op = "resolved"
\* the three sources, each by whether it can supply an entrypoint
ManifestAvailable ==
    /\ lookup.w.folder
    /\ lookup.w.manifest = "valid"
    /\ lookup.w.main # ""
    /\ endsWithJscad(lookup.w.main)
    /\ lookup.w.main \in lookup.existing
DefaultAvailable == lookup.w.folder /\ "index.jscad" \in lookup.existing
ActiveAvailable ==
    lookup.activeEditorFilePath # "" /\ endsWithJscad(lookup.activeEditorFilePath)

\* C19: the answer is the manifest's main when that source is available,
\* else the default script when it is, else the active file when it is, else
\* none; each answer names the file of its source.
C19_StrictPriority ==
    Answered =>
        /\ lookup.found.source = "package.json" <=> ManifestAvailable
        /\ lookup.found.source = "index.jscad" <=> (~ManifestAvailable /\ DefaultAvailable)
        /\ lookup.found.source = "active-editor" <=>
              (~ManifestAvailable /\ ~DefaultAvailable /\ ActiveAvailable)
        /\ lookup.found.source = "none" <=>
              (~ManifestAvailable /\ ~DefaultAvailable /\ ~ActiveAvailable)
        /\ lookup.found.source = "package.json" => lookup.found.filePath = lookup.w.main
        /\ lookup.found.source = "index.jscad" => lookup.found.filePath = "index.jscad"
        /\ lookup.found.source = "active-editor" =>
              lookup.found.filePath = lookup.activeEditorFilePath

C19_Witness ==
    /\ Answered
    /\ ManifestAvailable /\ DefaultAvailable /\ ActiveAvailable
    /\ lookup.w.main # "index.jscad"
    /\ lookup.found = Entrypoint(lookup.w.main, "package.json")

\* the manifest has a "main" the resolver cannot use
UnusableMain ==
    /\ lookup.w.folder
    /\ lookup.w.manifest = "valid"
    /\ lookup.w.main # ""
    /\ (~endsWithJscad(lookup.w.main) \/ lookup.w.main \notin lookup.existing)
WithoutManifest == Workspace(lookup.w.folder, "absent", "")

\* C20: with a manifest whose main has the wrong extension or names a
\* missing file, the resolver answers what it answers for the same folder
\* without a manifest.
C20_UnusableMainSkipped ==
    (Answered /\ UnusableMain) =>
        lookup.found = resolveJscadEntrypointWithOptions(WithoutManifest, lookup.existing,
                                                         lookup.activeEditorFilePath)

C20_Witness ==
    /\ Answered
    /\ lookup.w.main = "lib.js"
    /\ "lib.js" \in lookup.existing
    /\ UnusableMain
    /\ lookup.found = Entrypoint("index.jscad", "index.jscad")

----------------------------------------------------------------------------
(* Overlapping executeAndRender calls: which call a message belongs to *)

\* the name and the value of a 'parameterChanged' message
Edit(name, value) == [name |-> name, value |-> value]
NoEdit == Edit("", Undefined)

\* what is remembered of a suspended call
\*   overtaken: a call that began after it has posted its messages
\*   origin: the kind of event whose handler made the call
\*   edit: the 'parameterChanged' message, if that is what the handler handled
Tracked(overtaken, origin, edit) ==
    [overtaken |-> overtaken, origin |-> origin, edit |-> edit]

\* the calls still suspended once a call that began after them has posted
Overtake(t, posted) ==
    IF posted = <<>> THEN t
    ELSE [i \in DOMAIN t |-> Tracked(TRUE, t[i].origin, t[i].edit)]

\* a handler ran: the call it made, if any, is suspended, or it ran to its
\* end and posted
Tracking(kind, doc, edit) ==
    /\ track' = IF Len(pending') > Len(pending)
                THEN Append(track, Tracked(FALSE, kind, edit))
                ELSE Overtake(track, completed'.posted)
    /\ handled' = Event(kind, doc, FALSE)

\* the calls left once the i-th suspended call ran to its end: the calls
\* before it began earlier
Settling(i) ==
    Overtake(SubSeq(track, 1, i - 1), completed'.posted)
        \o SubSeq(track, i + 1, Len(track))

SettleTracking(i) ==
    /\ track' = Settling(i)
    /\ handled' = Event(track[i].origin, "", TRUE)

NoTracking == UNCHANGED track /\ handled' = NoEvent

OverlapScripts(p) ==
    IF p = "index.jscad" THEN {ParamScript, AsyncScript, RuntimeErrorScript}
    ELSE {CubeScript}
OverlapValues == {Num(70), Num(30)}

InitOverlap ==
    /\ cache = [p \in {} |-> EmptyMap]
    /\ stored = [p \in {} |-> EmptyMap]
    /\ plast = Call("new", "", "", Undefined, NoDefs, EmptyMap)
    /\ files \in [Paths -> {CubeScript, ParamScript, AsyncScript}]
    /\ \A p \in Paths : files[p] \in OverlapScripts(p)
    /\ requireCache = PristineRequire
    /\ runs = <<>>
    /\ ws \in Workspaces
    /\ editor = ""
    /\ panel = "closed"
    /\ currentEntrypoint = ""
    /\ shown = NoShown
    /\ pending = <<>>
    /\ completed = NoInv
    /\ ViewIdle
    /\ report = NoReport
    /\ lookup = NoLookup
    /\ McpIdle
    /\ TrackIdle

overlapOthers == <<view, report, lookup, mcp>>
OverlapDocs == Paths \cup {"notes.txt"}

TrackedOpen == OpenPreview /\ Tracking("open", "", NoEdit) /\ UNCHANGED overlapOthers
TrackedReady == WebviewReady /\ Tracking("ready", "", NoEdit) /\ UNCHANGED overlapOthers
TrackedEdit ==
    \E name \in Names, value \in OverlapValues :
        ParameterChangedTo(name, value) /\ Tracking("edit", "", Edit(name, value))
            /\ UNCHANGED overlapOthers
TrackedSave ==
    \E doc \in OverlapDocs : \E content \in OverlapScripts(doc) :
        SaveDocumentAs(doc, content) /\ Tracking("save", doc, NoEdit)
            /\ UNCHANGED overlapOthers
TrackedSettle(i) ==
    SettleDefinitionsOf(i) /\ SettleTracking(i) /\ UNCHANGED overlapOthers

NextOverlap ==
    \/ TrackedOpen
    \/ TrackedReady
    \/ TrackedEdit
    \/ TrackedSave
    \/ DisposePanel /\ NoTracking /\ UNCHANGED overlapOthers
    \/ \E i \in 1..MaxPending : TrackedSettle(i)
    \/ ChangeActiveEditor /\ NoTracking /\ UNCHANGED overlapOthers

SpecOverlap == InitOverlap /\ [][NextOverlap]_vars

\* the step ends the i-th suspended call
Resumed(i) ==
    /\ i \in DOMAIN pending
    /\ handled'.resumed
    /\ pending' = SubSeq(pending, 1, i - 1) \o SubSeq(pending, i + 1, Len(pending))
    /\ track' = Settling(i)

\* C23: results reach the preview in the order their invocations began: a
\* suspended call never posts once a call that began after it has posted
C23_ResultsInStartOrder ==
    [][\A i \in 1..MaxPending :
          (Resumed(i) /\ completed'.posted # <<>>) => ~track[i].overtaken]_vars

\* the resolved map holds the edit's coerced value, when the script declares
\* the parameter and the coercion succeeds
Reflects(definitions, edit, params) ==
    \A k \in DOMAIN definitions :
        (/\ definitions[k].name = edit.name
         /\ coerceValue(definitions[k], edit.value) # Undefined)
            => /\ edit.name \in DOMAIN params
               /\ params[edit.name] = coerceValue(definitions[k], edit.value)

\* the step handles 'parameterChanged' for (name, value) and the call it makes
\* runs to its end
EditedAndRan(name, value) ==
    /\ panel = "ready"
    /\ shown # NoShown
    /\ cache' = updateParameter(cache, shown.path, name, value)
    /\ stored' = cache'
    /\ Len(pending') = Len(pending)
    /\ completed'.path = shown.path

\* C25: the execution a 'parameterChanged' message triggers resolves its
\* parameters from a store that holds the edit: its resolved map, which a
\* success echoes to the parameter UI, has the edit's coerced value
C25_ExecutionReflectsEdit ==
    [][/\ \A name \in Names, value \in OverlapValues :
             (EditedAndRan(name, value) /\ completed'.resolved)
                 => Reflects(completed'.intro.value.list, Edit(name, value),
                             completed'.params)
       /\ \A i \in 1..MaxPending :
             (Resumed(i) /\ track[i].edit # NoEdit /\ completed'.resolved)
                 => Reflects(pending[i].intro.value.list, track[i].edit,
                             completed'.params)]_vars

\* the step made an executeAndRender call, and the script it was made for
CallMade ==
    /\ ~handled'.resumed
    /\ Len(pending') > Len(pending) \/ completed'.path # ""
CallPath == IF completed'.path # "" THEN completed'.path ELSE pending'[Len(pending')].path

SpecOverlapFair ==
    SpecOverlap /\ SF_vars(TrackedReady) /\ WF_vars(TrackedSettle(1))

----------------------------------------------------------------------------
(* The MCP manager under activation, the user's choices and process events *)

MaxSpawns == 2

Choices == {"Enable", "Not Now", "Don't Ask Again"}

InitMcp ==
    /\ ParamsIdle
    /\ EngineIdle
    /\ HostIdle
    /\ ViewIdle
    /\ report = NoReport
    /\ lookup = NoLookup
    /\ TrackIdle
    /\ \E enabled, dontAsk \in BOOLEAN :
          mcp = Mcp(enabled, enabled, dontAsk, FALSE, NoProcess, <<>>, <<>>,
                    "unasked")

\* ExtensionLifecycle.activate: `void this.mcpManager.startIfEnabled()`
McpActivate ==
    /\ ~mcp.activated
    /\ \E spawned \in BOOLEAN :
          mcp' = [startIfEnabled(mcp, spawned) EXCEPT !.activated = TRUE]

\* the hootcad.enableMcp command
McpEnableCommand ==
    /\ mcp.activated
    /\ Len(mcp.procs) < MaxSpawns
    /\ \E spawned \in BOOLEAN :
          mcp' = [enableMcpServer(mcp, spawned) EXCEPT !.approved = TRUE]

\* the first-run prompt after Open Preview, and the user's answer to it
McpPrompt ==
    /\ mcp.activated
    /\ Len(mcp.procs) < MaxSpawns
    /\ ~isMcpEnabled(mcp) /\ shouldPrompt(mcp)
    /\ \E choice \in Choices, spawned \in BOOLEAN :
          mcp' = [showEnablementPrompt(mcp, choice, spawned) EXCEPT
                     !.approved = @ \/ choice = "Enable"]

McpProvideDefinitions ==
    /\ mcp' = [mcp EXCEPT !.provided = provideMcpServerDefinitions(mcp)]
    /\ mcp' # mcp

McpStop ==
    /\ mcp.activated
    /\ mcp.mcpProcess # NoProcess
    /\ mcp' = stopMcpServer(mcp)

\* the server process prints its banner
McpWriteBanner ==
    \E p \in DOMAIN mcp.procs :
        /\ mcp.procs[p].life = "alive"
        /\ mcp.procs[p].banner = "none"
        /\ mcp' = [mcp EXCEPT !.procs[p].banner = "written"]

McpStderrData ==
    \E p \in DOMAIN mcp.procs :
        /\ mcp.procs[p].banner = "written"
        /\ mcp' = OnStderrData(mcp, p)

McpStartTimeout ==
    \E p \in DOMAIN mcp.procs :
        /\ mcp.procs[p].timer = "armed"
        /\ mcp' = OnStartTimeout(mcp, p)

McpExit ==
    \E p \in DOMAIN mcp.procs :
        /\ mcp.procs[p].life \in {"alive", "killed"}
        /\ mcp' = OnExit(mcp, p, "exited")

McpError ==
    \E p \in DOMAIN mcp.procs :
        /\ mcp.procs[p].life = "failed"
        /\ mcp' = OnExit(mcp, p, "errored")

McpResumeStart ==
    \E i \in DOMAIN mcp.calls :
        /\ mcp.procs[mcp.calls[i].proc].resolved # "pending"
        /\ \/ mcp.procs[mcp.calls[i].proc].resolved = "started"
           \/ mcp.calls[i].attempt = 2
           \/ Len(mcp.procs) < MaxSpawns
        /\ \E spawned \in BOOLEAN : mcp' = ResumeStart(mcp, i, spawned)

mcpOthers == <<paramVars, engineVars, hostVars, view, report, lookup, track, handled>>

NextMcp ==
    \/ McpActivate /\ UNCHANGED mcpOthers
    \/ McpEnableCommand /\ UNCHANGED mcpOthers
    \/ McpPrompt /\ UNCHANGED mcpOthers
    \/ McpProvideDefinitions /\ UNCHANGED mcpOthers
    \/ McpStop /\ UNCHANGED mcpOthers
    \/ McpWriteBanner /\ UNCHANGED mcpOthers
    \/ McpStderrData /\ UNCHANGED mcpOthers
    \/ McpStartTimeout /\ UNCHANGED mcpOthers
    \/ McpExit /\ UNCHANGED mcpOthers
    \/ McpError /\ UNCHANGED mcpOthers
    \/ McpResumeStart /\ UNCHANGED mcpOthers

SpecMcp == InitMcp /\ [][NextMcp]_vars

\* the processes that are running: spawned, not killed, not exited
Live(m) == {p \in DOMAIN m.procs : m.procs[p].life = "alive"}

\* C22: nothing is spawned, and the provider offers no server definition,
\* unless the user has approved the server: the enabled flag is set only by
\* the Enable choice of the prompt or by the Enable command, now or in an
\* earlier session
C22_McpRequiresApproval ==
    /\ mcp.enabled => mcp.approved
    /\ mcp.procs # <<>> => mcp.approved
    /\ mcp.provided = "one" => mcp.approved

\* not approved: activation has run and the provider was asked, and there is
\* neither a process nor a definition
C22_Witness ==
    /\ ~mcp.approved
    /\ mcp.activated
    /\ mcp.provided = "none"
    /\ mcp.procs = <<>>

\* C26: at most one process spawned by the manager is running, and the
\* manager's mcpProcess is the handle of every running one
C26_SingleHeldProcess ==
    /\ Cardinality(Live(mcp)) <= 1
    /\ \A p \in Live(mcp) : mcp.mcpProcess = p

\* C27: a spawn attempt that resolved as not started left no running process,
\* and its process is never accepted as the running server
C27_NotStartedNeverAdopted ==
    \A p \in DOMAIN mcp.procs :
        mcp.procs[p].resolved = "notStarted"
            => /\ mcp.procs[p].life # "alive"
               /\ ~mcp.procs[p].started
               /\ mcp.mcpProcess # p

====
